---- MODULE Spec2Model ----
(***************************************************************************)
(* StudySet (Quizlet-Learn-Clone): the learning session state machine of   *)
(* app.js / state.js / storage.js, the SM-2 scheduler of spacedRep.js, the *)
(* audio cache eviction of storage.js and the audio pre-caching of tts.js. *)
(*                                                                         *)
(* Spec       the learning session with the clock standing still: study    *)
(*            start, resume, answers (SM-2 grade keys and multiple-choice  *)
(*            clicks), the delayed next-question timers, completion, exit, *)
(*            page unload / reload.                                        *)
(* SpecTime   the same with wall-clock time passing, for session expiry.   *)
(* SpecDrain  a session over DrainCards cards answered successfully only,  *)
(*            through the batch summary to completion.                     *)
(* SpecSM2    calculateSM2 applied repeatedly to the stats of one card.    *)
(* SpecCache  setCachedAudio (put, then evictOldAudioEntries) and          *)
(*            getCachedAudio on the audio store.                           *)
(* SpecLoad   loadLearnSession on a persisted session of a chosen age.     *)
(* SpecRoundTrip  saveLearnSession followed at once by loadLearnSession.   *)
(* SpecGrade  calculateSM2 called with any grade, valid or not.            *)
(* SpecDelete the learning session in a set whose cards get deleted.       *)
(* SpecRequest  requests for a session in a set that shrinks, time passing.*)
(* SpecPre    tts.js: preCacheCards and the drain of the pre-cache queue.  *)
(* SpecSpeak  tts.js speak / stop / playback and the cache functions, with *)
(*            the audio database open or not.                              *)
(* SpecSettings  the pre-cache drain with the settings saved meanwhile.    *)
(* SpecDue    the three due queries applied to one card.                   *)
(* SpecKey    getCacheKey applied to two texts and voice ids.              *)
(* SpecCards  the number of cards of a set under add, bulk and JSON import.*)
(* SpecRead   setCachedAudio and getCachedAudio, the last read remembered. *)
(* SpecPreFair  the pre-cache drain with every pending step settling.      *)
(* SpecShuffle  initializeNewSession on a set, a mode and a shuffle.       *)
(* SpecMastery  getMasteryLevel on one card's stats.                       *)
(* SpecCrash  handleGrade write by write, the page dying in between.       *)
(*                                                                         *)
(* The session machine never reads a card's review stats, so Spec keeps of *)
(* a card only its identity and its star; of the updates an answer makes   *)
(* to the card it keeps which grading policy made one (graded).            *)
(***************************************************************************)
EXTENDS Integers, Sequences, FiniteSets, TLC

VARIABLES
    now,            \* Date.now(), milliseconds
    cards,          \* ids of the cards of the set (set.cards)
    starred,        \* ids of the starred cards
    mem,            \* state.learnSession: None or Some(session)
    stored,         \* localStorage['studyset_learn_session']: None or Some(session)
    section,        \* getCurrentSection(): "home", "set", "learn"
    shown,          \* the learn panels not hidden: content, feedback, summary, completion
    buttons,        \* the multiple-choice buttons in #answerOptions
    timers,         \* pending setTimeout callbacks, by kind
    batchNonEmpty,  \* learnState.batchHistory.length > 0
    sm2,            \* state.features.spacedRepetition
    resumeCard,     \* home resume card: "hidden" or the mode of the session it captured
    graded,         \* grading policies that updated the card since it was presented
    installed,      \* history: the queue installed by the last createLearnSession
    raced,          \* history: an answer was applied to a question already answered
    finished,       \* history: the session handleLearnComplete last read, or None
    alerted,        \* history: the last navigateToLearnMode ended in initializeNewSession's alert
    sm,             \* SpecSM2: the review stats of one card
    cache,          \* SpecCache: the audio store, a set of entries
    evicted,        \* SpecCache: what the last cache operation, if a put, met and deleted
    loaded,         \* SpecLoad: the last loadLearnSession call: time, entry met, result
    pre,            \* SpecPre: tts.js preCacheQueue, isPreCaching, the drain in flight
    tts,            \* SpecSpeak: state.ttsState, audioDB, tts.js currentAudio, isSpeaking
    probe,          \* the last call of a function checked on its own; SpecCrash: memory and localStorage
    allSets         \* SpecCards: state.allSets by number of cards, the set in view

vars == << now, cards, starred, mem, stored, section, shown, buttons, timers,
           batchNonEmpty, sm2, resumeCard, graded, installed, raced, finished,
           alerted, sm, cache, evicted, loaded, pre, tts, probe, allSets >>

sessionVars == << now, cards, starred, mem, stored, section, shown, buttons, timers,
                  batchNonEmpty, sm2, resumeCard, graded, installed, raced,
                  finished, alerted >>

-----------------------------------------------------------------------------
(* Bounds of the model *)

NumCards == 2
MaxAnswers == 4
MaxTimeAnswers == 2
MaxTimers == 1
MaxElapsed == 604800001
DrainCards == 10
MaxReviews == 4
MaxKeys == 2
MaxTicks == 2
MaxRuns == 2

-----------------------------------------------------------------------------
(* Program constants *)

AGAIN == 1
HARD == 2
GOOD == 3
EASY == 4
BATCH_SIZE == 10
MIN_SESSION_CARDS == 2
SESSION_EXPIRY_MS == 604800000
DAY_MS == 86400000
MIN_EASE == 130
FIRST_INTERVAL == 1
SECOND_INTERVAL == 6
MB == 1048576
CACHE_SIZE_MB == 50
NoCard == 0
SetId == 1
StartTime == 1

Grades == {AGAIN, HARD, GOOD, EASY}
Modes == {"all", "starred"}
CardIds == 1..NumCards

None == << >>
Some(x) == << x >>

Min(a, b) == IF a <= b THEN a ELSE b
Max(a, b) == IF a >= b THEN a ELSE b

Range(s) == { s[i] : i \in 1..Len(s) }

\* All orders shuffleArray can return for the cards in S.
Perms(S) ==
    { p \in [1..Cardinality(S) -> S] : \A i, j \in 1..Cardinality(S) : i # j => p[i] # p[j] }

\* Array.prototype.shift(): drops the first element, a no-op on an empty array.
Shift(s) == IF Len(s) = 0 THEN s ELSE Tail(s)

\* Array.prototype.splice(i, 0, x): inserts x before 0-based index i.
Splice(s, i, x) == SubSeq(s, 1, i) \o << x >> \o SubSeq(s, i + 1, Len(s))

-----------------------------------------------------------------------------
(* state.js *)

createLearnSession(cardIds, mode, t) ==
    [ setId |-> SetId,
      unseenIds |-> cardIds,
      masteredIds |-> << >>,
      currentQuestionId |-> NoCard,
      questionsAnswered |-> 0,
      correctCount |-> 0,
      mode |-> mode,
      startedAt |-> t,
      savedAt |-> t ]

(* storage.js *)

\* A save that leaves the snapshot's savedAt as it was.
saveLearnSessionUnstamped(session, t) == session

\* What saveLearnSession leaves in localStorage.
saveLearnSession(session, t) ==
    IF session = None THEN None
    ELSE Some([ session[1] EXCEPT !.savedAt = t ])

\* An expiry test that already discards a session of exactly the limit's age.
ExpiredAtLimit(st, t) == st # None /\ t - st[1].savedAt >= SESSION_EXPIRY_MS

\* The persisted session st is too old at time t.
Expired(st, t) == st # None /\ t - st[1].savedAt > SESSION_EXPIRY_MS

\* What loadLearnSession returns at time t, and what it leaves in localStorage.
loadLearnSession(st, t) == IF st = None \/ Expired(st, t) THEN None ELSE st

loadLearnSessionStorage(st, t) == IF Expired(st, t) THEN None ELSE st

\* loaded before any call of loadLearnSession.
NotLoaded == [ called |-> FALSE, at |-> 0, entry |-> None, result |-> None ]

\* A call of loadLearnSession() at the current time.
LoadStep ==
    /\ ~loaded.called
    /\ loaded' = [ called |-> TRUE, at |-> now, entry |-> stored,
                   result |-> loadLearnSession(stored, now) ]
    /\ stored' = loadLearnSessionStorage(stored, now)

-----------------------------------------------------------------------------
(* app.js: learn mode *)

\* isCardDue: createCard makes a card due at once and only an SM-2 grade moves
\* its dueAt; the due mode is asked for only where no answer is graded by SM-2.
DueCards == cards

\* A count of applicable cards that includes the cards deleted from the set.
ApplicableCardsWithDeleted(mode) == CardIds

\* The cards initializeNewSession studies in a mode.
ApplicableCards(mode) ==
    IF mode = "starred" THEN cards \cap starred
    ELSE IF mode = "due" THEN DueCards
    ELSE cards

NoButtons == [ state |-> "none", wrong |-> FALSE ]

\* renderMultipleChoice: fresh enabled buttons, one per option (up to 4 cards).
renderMultipleChoice == [ state |-> "enabled", wrong |-> Cardinality(cards) >= 2 ]

\* renderLearnFeedback(false, term)
renderLearnFeedback(sh) == (sh \ {"content"}) \cup {"feedback"}

\* A completion that writes the session back instead of clearing storage.
handleLearnCompleteKeepsStorage(m, sh, bt, gr) ==
    [ mem |-> None, stored |-> saveLearnSession(m, now),
      shown |-> (sh \ {"content", "feedback", "summary"}) \cup {"completion"},
      buttons |-> bt, graded |-> gr, finished |-> m ]

\* The state handleLearnComplete() leaves: the session is read for the final
\* stats, then cleared in memory and in storage, and the completion panel shown.
handleLearnComplete(m, sh, bt, gr) ==
    [ mem |-> None, stored |-> None,
      shown |-> (sh \ {"content", "feedback", "summary"}) \cup {"completion"},
      buttons |-> bt, graded |-> gr, finished |-> m ]

\* The state nextQuestion() leaves, from in-memory session m, storage st,
\* batch history flag bh, panels sh, buttons bt, graded policies gr and the
\* last completed session fin.
nextQuestion(m, st, bh, sh, bt, gr, fin) ==
    IF m = None
    THEN [ mem |-> m, stored |-> st, shown |-> sh, buttons |-> bt, graded |-> gr,
           finished |-> fin ]
    ELSE IF /\ m[1].questionsAnswered > 0
            /\ m[1].questionsAnswered % BATCH_SIZE = 0
            /\ bh
    THEN [ mem |-> m, stored |-> st,
           shown |-> (sh \ {"content", "feedback"}) \cup {"summary"},
           buttons |-> bt, graded |-> gr, finished |-> fin ]
    ELSE IF Len(m[1].unseenIds) = 0
    THEN handleLearnComplete(m, sh, bt, gr)
    ELSE LET s == [ m[1] EXCEPT !.currentQuestionId = Head(m[1].unseenIds) ]
         IN  [ mem |-> Some(s),
               stored |-> saveLearnSession(Some(s), now),
               shown |-> {"content"},
               buttons |-> IF s.currentQuestionId \in cards
                           THEN renderMultipleChoice ELSE bt,
               graded |-> {}, finished |-> fin ]

\* An answer that leaves the queue as it was.
answerKeepsQueue(s, success, r) ==
    IF success
    THEN [ s EXCEPT !.questionsAnswered = @ + 1,
                    !.masteredIds = Append(@, s.currentQuestionId),
                    !.correctCount = @ + 1 ]
    ELSE [ s EXCEPT !.questionsAnswered = @ + 1 ]

\* The session after an answer to the current question: success retires the
\* card, failure re-inserts it at min(length, r) with r drawn from 2..4.
answer(s, success, r) ==
    IF success
    THEN [ s EXCEPT !.questionsAnswered = @ + 1,
                    !.unseenIds = Shift(@),
                    !.masteredIds = Append(@, s.currentQuestionId),
                    !.correctCount = @ + 1 ]
    ELSE [ s EXCEPT !.questionsAnswered = @ + 1,
                    !.unseenIds = Splice(Shift(@), Min(Len(Shift(@)), r),
                                         s.currentQuestionId) ]

PendingTimers == timers.next + timers.feedback

\* handleGrade(grade), called by handleKeyboard for the grade keys. The model
\* follows a session for at most cap answers.
handleGrade(grade, cap) ==
    /\ section = "learn"
    /\ sm2
    /\ mem # None
    /\ mem[1].currentQuestionId \in cards
    /\ mem[1].questionsAnswered < cap
    /\ grade < GOOD \/ PendingTimers < MaxTimers
    /\ \E r \in 2..4 :
         LET s == answer(mem[1], grade >= GOOD, r)
         IN  /\ mem' = Some(s)
             /\ stored' = saveLearnSession(Some(s), now)
    /\ batchNonEmpty' = TRUE
    /\ raced' = (raced \/ graded # {})
    /\ graded' = graded \cup {"sm2"}
    /\ IF grade >= GOOD
       THEN /\ timers' = [ timers EXCEPT !.next = @ + 1 ]
            /\ shown' = shown
       ELSE /\ timers' = timers
            /\ shown' = renderLearnFeedback(shown)
    /\ UNCHANGED << now, cards, starred, section, buttons, sm2, resumeCard, installed,
                    finished, alerted >>

\* handleMultipleChoiceAnswer(isCorrect, btn, id), the click of an answer button.
handleMultipleChoiceAnswer(isCorrect, cap) ==
    /\ section = "learn"
    /\ "content" \in shown
    /\ buttons.state = "enabled"
    /\ isCorrect \/ buttons.wrong
    /\ mem # None
    /\ mem[1].currentQuestionId \in cards
    /\ mem[1].questionsAnswered < cap
    /\ PendingTimers < MaxTimers
    /\ \E r \in 2..4 :
         LET s == answer(mem[1], isCorrect, r)
         IN  /\ mem' = Some(s)
             /\ stored' = saveLearnSession(Some(s), now)
    /\ buttons' = [ buttons EXCEPT !.state = "disabled" ]
    /\ batchNonEmpty' = TRUE
    /\ raced' = (raced \/ graded # {})
    /\ graded' = graded \cup {"mc"}
    /\ timers' = IF isCorrect THEN [ timers EXCEPT !.next = @ + 1 ]
                              ELSE [ timers EXCEPT !.feedback = @ + 1 ]
    /\ UNCHANGED << now, cards, starred, section, shown, sm2, resumeCard, installed,
                    finished, alerted >>

\* Applies the result of nextQuestion() to the session variables.
ApplyNextQuestion(nq) ==
    /\ mem' = nq.mem
    /\ stored' = nq.stored
    /\ shown' = nq.shown
    /\ buttons' = nq.buttons
    /\ graded' = nq.graded
    /\ finished' = nq.finished

\* setTimeout(nextQuestion, 800) / the 1000 ms timer of a correct click fires.
NextQuestionTimer ==
    /\ timers.next > 0
    /\ timers' = [ timers EXCEPT !.next = @ - 1 ]
    /\ ApplyNextQuestion(nextQuestion(mem, stored, batchNonEmpty, shown, buttons,
                                      graded, finished))
    /\ UNCHANGED << now, cards, starred, section, batchNonEmpty, sm2, resumeCard,
                    installed, raced, alerted >>

\* The 1000 ms timer of a wrong click fires: renderLearnFeedback.
FeedbackTimer ==
    /\ timers.feedback > 0
    /\ timers' = [ timers EXCEPT !.feedback = @ - 1 ]
    /\ shown' = renderLearnFeedback(shown)
    /\ UNCHANGED << now, cards, starred, mem, stored, section, buttons, batchNonEmpty,
                    sm2, resumeCard, graded, installed, raced, finished, alerted >>

\* Click of #nextQuestionBtn on the feedback panel.
NextQuestionButton ==
    /\ section = "learn"
    /\ "feedback" \in shown
    /\ ApplyNextQuestion(nextQuestion(mem, stored, batchNonEmpty, shown, buttons,
                                      graded, finished))
    /\ UNCHANGED << now, cards, starred, section, timers, batchNonEmpty, sm2, resumeCard,
                    installed, raced, alerted >>

\* handleContinueLearning, the click of #continueBtn on the batch summary.
handleContinueLearning ==
    /\ section = "learn"
    /\ "summary" \in shown
    /\ batchNonEmpty' = FALSE
    /\ ApplyNextQuestion(nextQuestion(mem, stored, FALSE, {"content"}, buttons,
                                      graded, finished))
    /\ UNCHANGED << now, cards, starred, section, timers, sm2, resumeCard, installed, raced, alerted >>

\* navigateToLearnMode(setId, {resume, mode})
navigateToLearnMode(resume, mode) ==
    LET saved == loadLearnSession(stored, now)
        st == loadLearnSessionStorage(stored, now)
        useSaved == /\ saved # None
                    /\ saved[1].setId = SetId
                    /\ Len(saved[1].unseenIds) > 0
        useMem == ~useSaved /\ resume /\ mem # None /\ mem[1].setId = SetId
        create == ~useSaved /\ ~useMem
        applicable == ApplicableCards(mode)
    IN  IF create /\ Cardinality(applicable) < MIN_SESSION_CARDS
        THEN \* initializeNewSession alerts and returns null
             /\ stored' = st
             /\ alerted' = TRUE
             /\ UNCHANGED << now, cards, starred, mem, section, shown, buttons, timers,
                             batchNonEmpty, sm2, resumeCard, graded, installed, raced, finished >>
        ELSE \E shuffled \in (IF create THEN Perms(applicable) ELSE {<< >>}) :
               LET session == IF useSaved THEN saved
                              ELSE IF useMem THEN mem
                              ELSE Some(createLearnSession(shuffled, mode, now))
                   nq == nextQuestion(session, saveLearnSession(session, now), FALSE,
                                      {"content"}, buttons, graded,
                                      IF create THEN None ELSE finished)
               IN  /\ ApplyNextQuestion(nq)
                   /\ batchNonEmpty' = FALSE
                   /\ section' = "learn"
                   /\ installed' = IF create THEN shuffled ELSE installed
                   /\ raced' = IF create THEN FALSE ELSE raced
                   /\ alerted' = FALSE
                   /\ UNCHANGED << now, cards, starred, timers, sm2, resumeCard >>

\* navigateToSetView(setId): the set view is shown.
navigateToSetView ==
    /\ section' = "set"
    /\ resumeCard' = resumeCard

\* An exit that is always treated as completion.
handleExitLearnAsCompletion ==
    /\ section = "learn"
    /\ stored' = None
    /\ mem' = None
    /\ navigateToSetView
    /\ UNCHANGED << now, cards, starred, shown, buttons, timers, batchNonEmpty, sm2,
                    graded, installed, raced, finished, alerted >>

\* handleExitLearn: #learnExitBtn or the Escape key in learn mode.
handleExitLearn ==
    /\ section = "learn"
    /\ IF mem # None /\ Len(mem[1].unseenIds) > 0
       THEN /\ stored' = saveLearnSession(mem, now)
            /\ mem' = mem
       ELSE /\ stored' = None
            /\ mem' = None
    /\ navigateToSetView
    /\ UNCHANGED << now, cards, starred, shown, buttons, timers, batchNonEmpty, sm2,
                    graded, installed, raced, finished, alerted >>

\* Click of #restartLearnBtn on the completion panel.
RestartLearn ==
    /\ section = "learn"
    /\ "completion" \in shown
    /\ navigateToLearnMode(FALSE, IF mem # None THEN mem[1].mode ELSE "all")

\* Click of #backToSetBtn on the completion panel.
BackToSet ==
    /\ section = "learn"
    /\ "completion" \in shown
    /\ stored' = None
    /\ mem' = None
    /\ navigateToSetView
    /\ UNCHANGED << now, cards, starred, shown, buttons, timers, batchNonEmpty, sm2,
                    graded, installed, raced, finished, alerted >>

\* Clicks of #setViewLearnBtn / #setViewStarredBtn, enabled by renderSetViewActions.
StudyFromSetView(mode) ==
    /\ section = "set"
    /\ Cardinality(ApplicableCards(mode)) >= 2
    /\ navigateToLearnMode(FALSE, mode)

\* handleRandomSet, the "Random Set" quick action of the home screen.
handleRandomSet ==
    /\ section = "home"
    /\ Cardinality(cards) >= 2
    /\ navigateToLearnMode(FALSE, "all")

\* handleResumeSession(savedSession), the click of the home resume card.
handleResumeSession ==
    /\ section = "home"
    /\ resumeCard # "hidden"
    /\ navigateToLearnMode(TRUE, resumeCard)

\* renderHomeResumeSection: the card shows iff loadLearnSession returns a session.
renderHomeResumeSection(st, t) ==
    IF loadLearnSession(st, t) # None THEN loadLearnSession(st, t)[1].mode ELSE "hidden"

\* navigateToHome, from the set view's back button.
navigateToHome ==
    /\ section = "set"
    /\ section' = "home"
    /\ stored' = loadLearnSessionStorage(stored, now)
    /\ resumeCard' = renderHomeResumeSection(stored, now)
    /\ UNCHANGED << now, cards, starred, mem, shown, buttons, timers, batchNonEmpty, sm2,
                    graded, installed, raced, finished, alerted >>

\* onSelectSet on the home screen.
SelectSet ==
    /\ section = "home"
    /\ navigateToSetView
    /\ UNCHANGED << now, cards, starred, mem, stored, shown, buttons, timers,
                    batchNonEmpty, sm2, graded, installed, raced, finished, alerted >>

\* handleStudy5Min, the "Study" quick action of the home screen: the due cards
\* of the set with most of them, or all its cards when none is due.
handleStudy5Min ==
    /\ section = "home"
    /\ navigateToLearnMode(FALSE, IF Cardinality(DueCards) > 0 THEN "due" ELSE "all")

\* handleDeleteCard(cardId), the delete button of a term in the set view.
handleDeleteCard(c) ==
    /\ section = "set"
    /\ c \in cards
    /\ cards' = cards \ {c}
    /\ navigateToSetView
    /\ UNCHANGED << now, starred, mem, stored, shown, buttons, timers, batchNonEmpty,
                    sm2, graded, installed, raced, finished, alerted >>

\* handleToggleSM2, the checkbox of the learn settings.
handleToggleSM2 ==
    /\ section = "learn"
    /\ sm2' = ~sm2
    /\ UNCHANGED << now, cards, starred, mem, stored, section, shown, buttons, timers,
                    batchNonEmpty, resumeCard, graded, installed, raced, finished, alerted >>

\* The page is closed and opened again. A graceful close runs the beforeunload
\* handler; then DOMContentLoaded loads the session and shows the home screen.
Reload(graceful) ==
    LET st1 == IF graceful /\ mem # None /\ Len(mem[1].unseenIds) > 0
               THEN saveLearnSession(mem, now) ELSE stored
    IN  /\ mem' = loadLearnSession(st1, now)
        /\ stored' = loadLearnSessionStorage(st1, now)
        /\ resumeCard' = renderHomeResumeSection(st1, now)
        /\ section' = "home"
        /\ shown' = {"content"}
        /\ buttons' = NoButtons
        /\ timers' = [ next |-> 0, feedback |-> 0 ]
        /\ batchNonEmpty' = FALSE
        /\ UNCHANGED << now, cards, starred, sm2, graded, installed, raced, finished, alerted >>

\* Wall-clock time passes: exactly the expiry period, or one millisecond more.
PassTime(d) ==
    /\ now + d <= StartTime + MaxElapsed
    /\ now' = now + d
    /\ UNCHANGED << cards, starred, mem, stored, section, shown, buttons, timers,
                    batchNonEmpty, sm2, resumeCard, graded, installed, raced, finished, alerted >>

Waits == { SESSION_EXPIRY_MS, SESSION_EXPIRY_MS + 1 }

-----------------------------------------------------------------------------
(* spacedRep.js: ease is kept in hundredths (2.5 is 250), so that the  *)
(* arithmetic is exact; intervals are whole days.                      *)

\* Math.round(n / d) for n >= 0, d > 0.
Round(n, d) == (2 * n + d) \div (2 * d)

\* The ease calculateSM2 returns when the floor is left out.
NoFloorEase(e) == e

\* Math.max(MIN_EASE, e)
FloorEase(e) == Max(MIN_EASE, e)

\* The repetitions a failed review would keep without the reset.
KeepRepetitions(r) == r

\* newRepetitions = 0 on a failed review.
ResetRepetitions(r) == 0

\* calculateSM2(stats, grade): the ease, interval and repetitions it returns.
calculateSM2(stats, grade) ==
    IF grade = AGAIN
    THEN [ ease |-> FloorEase(stats.ease - 20),
           interval |-> 1,
           repetitions |-> ResetRepetitions(stats.repetitions) ]
    ELSE LET newRepetitions == stats.repetitions + 1
             base == IF newRepetitions = 1 THEN FIRST_INTERVAL
                     ELSE IF newRepetitions = 2 THEN SECOND_INTERVAL
                     ELSE Round(stats.interval * stats.ease, 100)
         IN  IF grade = HARD
             THEN [ ease |-> FloorEase(stats.ease - 15),
                    interval |-> Max(1, Round(base * 80, 100)),
                    repetitions |-> newRepetitions ]
             ELSE IF grade = GOOD
             THEN [ ease |-> stats.ease,
                    interval |-> base,
                    repetitions |-> newRepetitions ]
             ELSE IF grade = EASY
             THEN [ ease |-> stats.ease + 15,
                    interval |-> Round(base * 130, 100),
                    repetitions |-> newRepetitions ]
             ELSE [ ease |-> stats.ease,
                    interval |-> base,
                    repetitions |-> newRepetitions ]

\* The stats createCard gives a new card.
createCardStats == [ ease |-> 250, interval |-> 1, repetitions |-> 0 ]

\* The stats a review can meet: a new card's, and those imported sets carry.
EaseGrid == {100, 130, 135, 145, 150, 250, 265}
StatsGrid == [ ease : EaseGrid, interval : 1..3, repetitions : 0..3 ]

NoStats == [ ease |-> 0, interval |-> 0, repetitions |-> 0 ]

\* sm before any review: the stats, no previous stats, no grade.
Unreviewed(stats) ==
    [ stats |-> stats, prev |-> NoStats, grade |-> 0, reviews |-> 0,
      fresh |-> stats = createCardStats ]

\* handleGrade's card update: stats := calculateSM2(card.stats, grade).
Review(grade) ==
    /\ sm.reviews < MaxReviews
    /\ sm' = [ stats |-> calculateSM2(sm.stats, grade),
               prev |-> sm.stats,
               grade |-> grade,
               reviews |-> sm.reviews + 1,
               fresh |-> sm.fresh ]

-----------------------------------------------------------------------------
(* storage.js: the audio cache. An entry is [key, size, accessedAt]; the     *)
(* blob itself is not modelled, only its size in bytes.                      *)

\* The bytes of a set or sequence of entries.
RECURSIVE SetBytes(_)
SetBytes(S) ==
    IF S = {} THEN 0
    ELSE LET e == CHOOSE x \in S : TRUE IN e.size + SetBytes(S \ {e})

RECURSIVE SeqBytes(_)
SeqBytes(s) == IF Len(s) = 0 THEN 0 ELSE Head(s).size + SeqBytes(Tail(s))

\* The order of the 'accessedAt' index cursor: ascending accessedAt, entries
\* of equal accessedAt in ascending primary key.
Before(a, b) ==
    \/ a.accessedAt < b.accessedAt
    \/ a.accessedAt = b.accessedAt /\ a.key < b.key

RECURSIVE IndexOrder(_)
IndexOrder(S) ==
    IF S = {} THEN << >>
    ELSE LET first == CHOOSE x \in S : \A y \in S \ {x} : Before(x, y)
         IN  << first >> \o IndexOrder(S \ {first})

\* evicted when the last cache operation was not a put.
NoEviction == [ put |-> FALSE, entries |-> << >>, deleted |-> << >> ]

\* store.put(entry): replaces the entry of the same key.
StorePut(S, entry) == { e \in S : e.key # entry.key } \cup { entry }

\* Five times a threshold equal to the whole limit.
evictTargetWholeLimit(maxBytes) == 5 * maxBytes

\* Five times the threshold maxBytes * 0.8 the eviction loop stops at.
evictTarget(maxBytes) == 4 * maxBytes

\* The loop of evictOldAudioEntries over the entries still to visit: the keys
\* it deletes, given the total size and the bytes removed so far.
RECURSIVE evictLoop(_, _, _, _)
evictLoop(entries, totalSize, removed, maxBytes) ==
    IF Len(entries) = 0 \/ 5 * (totalSize - removed) <= evictTarget(maxBytes)
    THEN << >>
    ELSE << Head(entries).key >>
         \o evictLoop(Tail(entries), totalSize, removed + Head(entries).size, maxBytes)

\* evictOldAudioEntries(maxSizeMB) on the store S: the keys deleted, in order.
evictOldAudioEntries(S, maxSizeMB) ==
    LET maxBytes == maxSizeMB * MB
        entries == IndexOrder(S)
        totalSize == SeqBytes(entries)
    IN  IF totalSize > maxBytes
        THEN evictLoop(entries, totalSize, 0, maxBytes)
        ELSE << >>

\* The sizes of the audio blobs the model stores.
BlobSizes == { 0, 10 * MB, 20 * MB, 45 * MB, 60 * MB }
CacheKeys == 1..MaxKeys

\* setCachedAudio(key, blob, ttsState.cacheSize || 50): the put, then the
\* eviction. d is the time that has passed since the last cache operation.
setCachedAudio(key, size, d) ==
    /\ now + d <= StartTime + MaxTicks
    /\ now' = now + d
    /\ LET put == StorePut(cache, [ key |-> key, size |-> size, accessedAt |-> now' ])
           deleted == evictOldAudioEntries(put, CACHE_SIZE_MB)
       IN  /\ cache' = { e \in put : e.key \notin Range(deleted) }
           /\ evicted' = [ put |-> TRUE, entries |-> IndexOrder(put), deleted |-> deleted ]

\* getCachedAudio(key) of a cached key: the entry's accessedAt is refreshed.
getCachedAudio(key, d) ==
    /\ now + d <= StartTime + MaxTicks
    /\ \E e \in cache :
         /\ e.key = key
         /\ now' = now + d
         /\ cache' = StorePut(cache, [ e EXCEPT !.accessedAt = now' ])
    /\ evicted' = NoEviction


\* A read that leaves the entry's accessedAt as it was.
untouched(e, t) == e

\* getCachedAudio on a hit: entry.accessedAt = Date.now(); store.put(entry)
touched(e, t) == [ e EXCEPT !.accessedAt = t ]

\* getCachedAudio(key), hit or miss, d after the last cache operation; probe
\* keeps the last hit: its key and its time.
readCachedAudio(key, d) ==
    /\ now + d <= StartTime + MaxTicks
    /\ now' = now + d
    /\ LET hit == { e \in cache : e.key = key }
       IN  IF hit = {}
           THEN cache' = cache /\ probe' = probe
           ELSE \E e \in hit :
                  /\ cache' = StorePut(cache, touched(e, now'))
                  /\ probe' = Some([ key |-> key, at |-> now' ])
    /\ evicted' = NoEviction

-----------------------------------------------------------------------------
(* tts.js: pre-caching of premium audio. The session specifications run    *)
(* with premium speech off (no ElevenLabs key), where preCacheCards        *)
(* returns at once; SpecPre runs with it on or off.                        *)

\* The cards of S in the order of set.cards.
RECURSIVE InOrder(_)
InOrder(S) ==
    IF S = {} THEN << >>
    ELSE LET first == CHOOSE x \in S : \A y \in S : x <= y
         IN  << first >> \o InOrder(S \ {first})

\* [...starredCards, ...set.cards.slice(0, 5)] of navigateToSetView: the
\* candidates handed to preCacheCards. A card's term stands for its cache key.
Candidates ==
    InOrder(starred \cap cards) \o SubSeq(InOrder(cards), 1, Min(5, Cardinality(cards)))

\* The size of a fetched audio blob.
AudioBytes == 10 * MB

\* No pre-caching has happened since the page was loaded.
NoPreCache ==
    [ queue |-> << >>,          \* preCacheQueue
      isPreCaching |-> FALSE,   \* isPreCaching
      runs |-> << >>,           \* activations of processPreCacheQueue at an await
      timers |-> 0,             \* pending setTimeout(processPreCacheQueue, 1000)
      issued |-> << >>,         \* history: terms fetched since the last preCacheCards
      failedAt |-> {},          \* history: the positions in issued of the failed fetches
      list |-> << >>,           \* history: the list the last preCacheCards queued
      taken |-> << >>,          \* history: the cards shifted off the queue since then
      op |-> "none" ]           \* history: the last step taken

\* processPreCacheQueue up to its first await: the flag, the shift, the cache
\* lookup issued.
processPreCacheQueue(p) ==
    IF Len(p.queue) = 0
    THEN [ p EXCEPT !.isPreCaching = FALSE ]
    ELSE [ p EXCEPT !.isPreCaching = TRUE,
                    !.queue = Tail(@),
                    !.taken = Append(@, Head(p.queue)),
                    !.runs = Append(@, [ card |-> Head(p.queue), pc |-> "lookup",
                                         fetchNo |-> 0, stale |-> FALSE ]) ]

\* A drain that starts whatever the flag says.
DrainAlwaysIdle(p) == TRUE

\* if (!isPreCaching)
DrainIdle(p) == ~p.isPreCaching

\* preCacheCards(cards): the queue is assigned the filtered list; the drain is
\* started unless one is marked in progress. Activations in flight belong to
\* the list before (stale).
preCacheCards(list, premium) ==
    /\ Len(pre.runs) < MaxRuns
    /\ pre' = IF ~premium
              THEN [ pre EXCEPT !.op = "off" ]
              ELSE LET p == [ pre EXCEPT !.queue = list,
                                         !.issued = << >>,
                                         !.failedAt = {},
                                         !.list = list,
                                         !.taken = << >>,
                                         !.runs = [ i \in DOMAIN @ |-> [ @[i] EXCEPT !.stale = TRUE ] ],
                                         !.op = "preCacheCards" ]
                   IN  IF DrainIdle(p) THEN processPreCacheQueue(p) ELSE p

\* An end of processPreCacheQueue that leaves isPreCaching raised.
finishRunKeepsFlag(p, i) ==
    LET rest == [ p EXCEPT !.runs = SubSeq(@, 1, i - 1) \o SubSeq(@, i + 1, Len(@)) ]
    IN  IF Len(p.queue) > 0
        THEN [ rest EXCEPT !.timers = @ + 1 ]
        ELSE rest

\* The end of processPreCacheQueue after its last await: the continuation
\* timer while candidates remain, else the flag is lowered.
finishRun(p, i) ==
    LET rest == [ p EXCEPT !.runs = SubSeq(@, 1, i - 1) \o SubSeq(@, i + 1, Len(@)) ]
    IN  IF Len(p.queue) > 0
        THEN [ rest EXCEPT !.timers = @ + 1 ]
        ELSE [ rest EXCEPT !.isPreCaching = FALSE ]

\* await getCachedAudio(cacheKey) resolves: a hit ends the activation, a miss
\* issues the fetch.
LookupDone(i) ==
    /\ i \in DOMAIN pre.runs
    /\ pre.runs[i].pc = "lookup"
    /\ LET run == pre.runs[i]
           hit == { e \in cache : e.key = run.card }
       IN  IF hit # {}
           THEN /\ cache' = { IF e \in hit THEN [ e EXCEPT !.accessedAt = now ] ELSE e : e \in cache }
                /\ pre' = [ finishRun(pre, i) EXCEPT !.op = "hit" ]
           ELSE /\ cache' = cache
                /\ pre' = IF run.stale
                          THEN [ pre EXCEPT !.runs[i].pc = "fetch", !.op = "fetch" ]
                          ELSE [ pre EXCEPT !.runs[i].pc = "fetch",
                                            !.runs[i].fetchNo = Len(pre.issued) + 1,
                                            !.issued = Append(@, run.card),
                                            !.op = "fetch" ]
    /\ evicted' = NoEviction
    /\ UNCHANGED << sessionVars, sm, loaded, tts, probe, allSets >>

\* await fetch(...) settles: a response that is ok goes on to the put; one that
\* is not ok, or an exception, ends the activation with nothing stored.
FetchDone(i, outcome) ==
    /\ i \in DOMAIN pre.runs
    /\ pre.runs[i].pc = "fetch"
    /\ pre' = IF outcome = "ok"
              THEN [ pre EXCEPT !.runs[i].pc = "put", !.op = "ok" ]
              ELSE LET run == pre.runs[i]
                       p == [ finishRun(pre, i) EXCEPT !.op = "failed" ]
                   IN  IF run.stale THEN p
                       ELSE [ p EXCEPT !.failedAt = @ \cup { run.fetchNo } ]
    /\ UNCHANGED << sessionVars, sm, cache, evicted, loaded, tts, probe, allSets >>

FetchOutcomes == { "ok", "status", "throws" }

\* await setCachedAudio(cacheKey, blob, ttsState.cacheSize || 50) resolves.
PutDone(i) ==
    /\ i \in DOMAIN pre.runs
    /\ pre.runs[i].pc = "put"
    /\ LET put == StorePut(cache, [ key |-> pre.runs[i].card, size |-> AudioBytes,
                                    accessedAt |-> now ])
           deleted == evictOldAudioEntries(put, CACHE_SIZE_MB)
       IN  /\ cache' = { e \in put : e.key \notin Range(deleted) }
           /\ evicted' = [ put |-> TRUE, entries |-> IndexOrder(put), deleted |-> deleted ]
    /\ pre' = [ finishRun(pre, i) EXCEPT !.op = "put" ]
    /\ UNCHANGED << sessionVars, sm, loaded, tts, probe, allSets >>

\* The continuation timer fires: processPreCacheQueue runs again.
ContinuationTimer ==
    /\ pre.timers > 0
    /\ Len(pre.runs) < MaxRuns
    /\ pre' = processPreCacheQueue([ pre EXCEPT !.timers = @ - 1, !.op = "timer" ])
    /\ UNCHANGED << sessionVars, sm, cache, evicted, loaded, tts, probe, allSets >>

\* handleToggleStar(cardId) in the set view.
handleToggleStar(c) ==
    /\ section = "set"
    /\ c \in cards
    /\ starred' = IF c \in starred THEN starred \ {c} ELSE starred \cup {c}
    /\ UNCHANGED << now, cards, mem, stored, section, shown, buttons, timers,
                    batchNonEmpty, sm2, resumeCard, graded, installed, raced, finished,
                    sm, cache, evicted, loaded, pre, alerted, tts, probe, allSets >>

\* onSelectSet with navigateToSetView's call of preCacheCards.
SelectSetPreCache(premium) ==
    /\ SelectSet
    /\ preCacheCards(Candidates, premium)
    /\ UNCHANGED << sm, cache, evicted, loaded, tts, probe, allSets >>

\* navigateToHome while pre-caching goes on.
LeaveSet ==
    /\ navigateToHome
    /\ UNCHANGED << sm, cache, evicted, loaded, pre, tts, probe, allSets >>

-----------------------------------------------------------------------------
(* Speech: tts.js speak, stop, speakElevenLabs, playAudioBlob, speakBrowser;
   storage.js audioDB and the cache functions; app.js handleSaveSettings *)

MaxCalls == 2
MaxClips == 2

\* The lengths of elevenLabsKey that the code tells apart: '' is falsy, speak
\* wants more than 10 characters.
KeyKinds == { "none", "short", "long" }

\* The page after load with the defaults, the audio database open and speech
\* synthesis present.
NoSpeech ==
    [ usePremium |-> FALSE,     \* state.ttsState.usePremium
      key |-> "none",           \* state.ttsState.elevenLabsKey, by length
      audioDB |-> TRUE,         \* storage.js audioDB is not null
      synth |-> TRUE,           \* 'speechSynthesis' in window
      currentAudio |-> None,    \* tts.js currentAudio: None or Some(object URL of the clip)
      isSpeaking |-> FALSE,     \* tts.js isSpeaking
      urls |-> {},              \* object URLs created and not revoked
      playing |-> {},           \* clips playing, by object URL
      made |-> 0,               \* object URLs created so far
      utterance |-> FALSE,      \* an utterance is queued or spoken by the browser
      calls |-> << >>,          \* activations of speakElevenLabs at an await
      op |-> "none",            \* history: the last function that ran
      result |-> "none",        \* history: what the last cache function returned
      thrown |-> FALSE ]        \* history: the last function threw

DropAt(q, i) == SubSeq(q, 1, i - 1) \o SubSeq(q, i + 1, Len(q))

\* if (!ttsState.usePremium || !ttsState.elevenLabsKey) return, negated
PreCacheEnabled(t) == t.usePremium /\ t.key # "none"

\* ttsState.usePremium && ttsState.elevenLabsKey && ttsState.elevenLabsKey.length > 10
PremiumSpeech(t) == t.usePremium /\ t.key = "long"

\* A store that is taken to be open whatever audioDB holds.
StoreAlwaysOpen(t) == TRUE

\* if (!audioDB) return ..., negated
StoreOpen(t) == t.audioDB

\* stop(): the clip is paused and forgotten; window.speechSynthesis.cancel()
\* is a TypeError where window has no speechSynthesis, and the last line is
\* then not reached.
stopped(t) ==
    LET quiet == IF t.currentAudio # None
                 THEN [ t EXCEPT !.playing = @ \ { t.currentAudio[1] }, !.currentAudio = None ]
                 ELSE t
    IN  IF ~t.synth
        THEN [ quiet EXCEPT !.thrown = TRUE ]
        ELSE [ quiet EXCEPT !.utterance = FALSE, !.isSpeaking = FALSE, !.thrown = FALSE ]

\* playAudioBlob(blob, ...)
playAudioBlob(t) ==
    LET u == t.made + 1
    IN  [ t EXCEPT !.made = u, !.urls = @ \cup {u}, !.playing = @ \cup {u},
                   !.currentAudio = Some(u) ]

\* speakBrowser(text, ...)
speakBrowser(t) ==
    IF ~t.synth
    THEN [ t EXCEPT !.isSpeaking = FALSE ]
    ELSE [ t EXCEPT !.utterance = TRUE ]

speechRest == << sessionVars, sm, loaded, pre, probe, allSets >>

\* stop() called from outside tts.js (handleExitLearn's stopTTS()).
stop ==
    /\ tts' = [ stopped(tts) EXCEPT !.op = "stop", !.result = "none" ]
    /\ UNCHANGED << cache, evicted, speechRest >>

\* speak(text) for a text that is not empty, up to its first await.
speak(text) ==
    /\ Len(tts.calls) < MaxCalls
    /\ LET s == [ stopped(tts) EXCEPT !.op = "speak", !.result = "none" ]
           on == [ s EXCEPT !.isSpeaking = TRUE ]
       IN  tts' = IF s.thrown THEN s
                  ELSE IF PremiumSpeech(on)
                  THEN [ on EXCEPT !.calls = Append(@, [ text |-> text, pc |-> "lookup" ]) ]
                  ELSE speakBrowser(on)
    /\ UNCHANGED << cache, evicted, speechRest >>

\* await getCachedAudio(cacheKey) in speakElevenLabs resolves.
SpeakLookupDone(i) ==
    /\ i \in DOMAIN tts.calls
    /\ tts.calls[i].pc = "lookup"
    /\ tts.made < MaxClips
    /\ LET hit == IF StoreOpen(tts) THEN { e \in cache : e.key = tts.calls[i].text } ELSE {}
       IN  IF hit # {}
           THEN /\ cache' = { IF e \in hit THEN [ e EXCEPT !.accessedAt = now ] ELSE e : e \in cache }
                /\ tts' = [ playAudioBlob([ tts EXCEPT !.calls = DropAt(@, i) ])
                              EXCEPT !.op = "getCachedAudio", !.result = "blob", !.thrown = FALSE ]
           ELSE /\ cache' = cache
                /\ tts' = [ tts EXCEPT !.calls[i].pc = "fetch", !.op = "getCachedAudio",
                                       !.result = "null", !.thrown = FALSE ]
    /\ UNCHANGED << evicted, speechRest >>

\* await fetch(...) in speakElevenLabs settles: ok goes on to setCachedAudio,
\* anything else to the catch and speakBrowser.
SpeakFetchDone(i, outcome) ==
    /\ i \in DOMAIN tts.calls
    /\ tts.calls[i].pc = "fetch"
    /\ tts' = IF outcome = "ok"
              THEN [ tts EXCEPT !.calls[i].pc = "put", !.op = "fetch", !.result = "none",
                                !.thrown = FALSE ]
              ELSE [ speakBrowser([ tts EXCEPT !.calls = DropAt(@, i) ])
                       EXCEPT !.op = "fetch", !.result = "none", !.thrown = FALSE ]
    /\ UNCHANGED << cache, evicted, speechRest >>

\* await setCachedAudio(cacheKey, audioBlob, ...) in speakElevenLabs resolves,
\* and the clip is played.
SpeakPutDone(i) ==
    /\ i \in DOMAIN tts.calls
    /\ tts.calls[i].pc = "put"
    /\ tts.made < MaxClips
    /\ IF StoreOpen(tts)
       THEN LET put == StorePut(cache, [ key |-> tts.calls[i].text, size |-> AudioBytes,
                                         accessedAt |-> now ])
                deleted == evictOldAudioEntries(put, CACHE_SIZE_MB)
            IN  /\ cache' = { e \in put : e.key \notin Range(deleted) }
                /\ evicted' = [ put |-> TRUE, entries |-> IndexOrder(put), deleted |-> deleted ]
       ELSE UNCHANGED << cache, evicted >>
    /\ tts' = [ playAudioBlob([ tts EXCEPT !.calls = DropAt(@, i) ])
                  EXCEPT !.op = "setCachedAudio",
                         !.result = IF StoreOpen(tts) THEN "true" ELSE "false",
                         !.thrown = FALSE ]
    /\ UNCHANGED speechRest

\* clearAudioCache()
clearAudioCache ==
    /\ cache' = IF StoreOpen(tts) THEN {} ELSE cache
    /\ evicted' = IF StoreOpen(tts) THEN NoEviction ELSE evicted
    /\ tts' = [ tts EXCEPT !.op = "clearAudioCache",
                           !.result = IF StoreOpen(tts) THEN "true" ELSE "none",
                           !.thrown = FALSE ]
    /\ UNCHANGED speechRest

\* audio.onended or audio.onerror of a clip that is playing.
AudioEnded(u) ==
    /\ u \in tts.playing
    /\ tts' = [ tts EXCEPT !.isSpeaking = FALSE, !.currentAudio = None,
                           !.urls = @ \ {u}, !.playing = @ \ {u},
                           !.op = "onended", !.result = "none", !.thrown = FALSE ]
    /\ UNCHANGED << cache, evicted, speechRest >>

\* audio.play() rejects.
PlayRejected(u) ==
    /\ u \in tts.playing
    /\ tts' = [ tts EXCEPT !.isSpeaking = FALSE, !.playing = @ \ {u},
                           !.op = "play", !.result = "none", !.thrown = FALSE ]
    /\ UNCHANGED << cache, evicted, speechRest >>

\* utterance.onend or utterance.onerror
UtteranceEnded ==
    /\ tts.utterance
    /\ tts' = [ tts EXCEPT !.isSpeaking = FALSE, !.utterance = FALSE,
                           !.op = "onend", !.result = "none", !.thrown = FALSE ]
    /\ UNCHANGED << cache, evicted, speechRest >>

\* handleSaveSettings(): the key and the premium switch as entered.
handleSaveSettings(usePremium, key) ==
    /\ tts' = [ tts EXCEPT !.usePremium = usePremium, !.key = key,
                           !.op = "handleSaveSettings", !.result = "none", !.thrown = FALSE ]
    /\ UNCHANGED << cache, evicted, speechRest >>

-----------------------------------------------------------------------------
(* The due queries: spacedRep.js isCardDue, state.js getDueCards, render.js
   renderSetViewActions. stats is None where the card has none, else
   Some([dueAt |-> None or Some(ms)]) *)

MaxDue == 4

\* card.stats.dueAt <= now of JavaScript for a dueAt that may be undefined:
\* undefined <= n is false.
NotAfter(dueAt, t) == dueAt # None /\ dueAt[1] <= t

\* What a query answers: a boolean of JavaScript, or the exception thrown.
Answer(b) == IF b THEN "true" ELSE "false"

\* isCardDue(card)
isCardDue(stats, t) ==
    IF stats = None \/ stats[1].dueAt = None \/ stats[1].dueAt[1] = 0
    THEN Answer(TRUE)
    ELSE Answer(stats[1].dueAt[1] <= t)

\* The filter of state.js getDueCards: card.stats.dueAt <= now, a TypeError
\* for a card without stats.
getDueCards(stats, t) ==
    IF stats = None THEN "TypeError" ELSE Answer(NotAfter(stats[1].dueAt, t))

\* The filter of renderSetViewActions: c.stats?.dueAt <= Date.now()
dueCount(stats, t) ==
    Answer(stats # None /\ NotAfter(stats[1].dueAt, t))

DueQueries == { "isCardDue", "getDueCards", "dueCount" }

DueQuery(q) ==
    /\ probe.fn \in DueQueries \cup { "card" }
    /\ probe' = [ probe EXCEPT !.fn = q,
                    !.result = CASE q = "isCardDue" -> isCardDue(probe.stats, probe.now)
                                 [] q = "getDueCards" -> getDueCards(probe.stats, probe.now)
                                 [] q = "dueCount" -> dueCount(probe.stats, probe.now) ]
    /\ UNCHANGED << sessionVars, sm, cache, evicted, loaded, pre, tts, allSets >>

-----------------------------------------------------------------------------
(* tts.js getCacheKey: texts and voice ids are sequences of characters *)

KEY_TEXT_LENGTH == 100
MaxTail == 2
Letters == { "a", "b" }

\* A key made of the whole text.
getCacheKeyUntruncated(text, voiceId) == text \o << "-" >> \o voiceId

\* getCacheKey(text, voiceId): text.substring(0, 100), '-', voiceId
getCacheKey(text, voiceId) ==
    SubSeq(text, 1, Min(Len(text), KEY_TEXT_LENGTH)) \o << "-" >> \o voiceId

\* Texts of KEY_TEXT_LENGTH - 1 characters and more, alike up to there.
Filler == [ i \in 1..(KEY_TEXT_LENGTH - 1) |-> "a" ]
Tails == UNION { [ 1..n -> Letters ] : n \in 0..MaxTail }
KeyTexts == { Filler \o tail : tail \in Tails } \cup Tails
VoiceIds == { << "v" >>, << "w" >> }

KeyCall ==
    /\ probe.fn = "texts"
    /\ probe' = [ probe EXCEPT !.fn = "getCacheKey",
                               !.result = << getCacheKey(probe.a.text, probe.a.voiceId),
                                             getCacheKey(probe.b.text, probe.b.voiceId) >> ]
    /\ UNCHANGED << sessionVars, sm, cache, evicted, loaded, pre, tts, allSets >>

-----------------------------------------------------------------------------
(* Cards of a set: state.js addCardToSet, app.js add-card form, handleBulkImport,
   handleImportSet. A set is its number of cards. *)

MAX_CARDS == 500
MaxSets == 2
MaxOps == 3
Slack == 2

\* No set yet (createDefaultState: allSets {}), none in view.
NoSets == [ sizes |-> << >>, active |-> 0, ops |-> 0, op |-> "none" ]

\* addCardToSet(setId, card): throws at 500 cards
addCardToSet(size) ==
    IF size >= MAX_CARDS THEN [ size |-> size, thrown |-> TRUE ]
    ELSE [ size |-> size + 1, thrown |-> FALSE ]

\* pairs.forEach(...) of handleBulkImport: addCardToSet for each of n pairs, a
\* throw caught and dropped; the calls add cards up to the limit and the later
\* ones throw.
addEach(size, n) ==
    IF addCardToSet(size).thrown THEN size ELSE Min(size + n, MAX_CARDS)

\* handleCreateSet(name) below its limit of 50 sets: a new empty set, opened.
handleCreateSet ==
    /\ Len(allSets.sizes) < MaxSets
    /\ allSets.ops < MaxOps
    /\ allSets' = [ sizes |-> Append(allSets.sizes, 0), active |-> Len(allSets.sizes) + 1,
                    ops |-> allSets.ops + 1, op |-> "create" ]
    /\ UNCHANGED << sessionVars, sm, cache, evicted, loaded, pre, tts, probe >>

\* The submit handler of addCardForm with a term and a definition.
AddCardSubmit ==
    /\ allSets.active # 0
    /\ allSets.ops < MaxOps
    /\ allSets' = [ allSets EXCEPT !.sizes[allSets.active] = addCardToSet(@).size,
                                   !.ops = @ + 1, !.op = "add" ]
    /\ UNCHANGED << sessionVars, sm, cache, evicted, loaded, pre, tts, probe >>

\* handleBulkImport() with n pairs parsed, confirmed.
handleBulkImport(n) ==
    /\ allSets.active # 0
    /\ allSets.ops < MaxOps
    /\ n > 0
    /\ allSets' = IF n > MAX_CARDS
                  THEN [ allSets EXCEPT !.ops = @ + 1, !.op = "alert" ]
                  ELSE [ allSets EXCEPT !.sizes[allSets.active] = addEach(@, n),
                                        !.ops = @ + 1, !.op = "bulk" ]
    /\ UNCHANGED << sessionVars, sm, cache, evicted, loaded, pre, tts, probe >>

\* handleImportSet() with a valid file of n cards: a new set, opened.
handleImportSet(n) ==
    /\ Len(allSets.sizes) < MaxSets
    /\ allSets.ops < MaxOps
    /\ allSets' = [ sizes |-> Append(allSets.sizes, n), active |-> Len(allSets.sizes) + 1,
                    ops |-> allSets.ops + 1, op |-> "import" ]
    /\ UNCHANGED << sessionVars, sm, cache, evicted, loaded, pre, tts, probe >>

\* Numbers of cards pasted or in a file: few, or about the limit.
ImportSizes == (1..Slack) \cup ((MAX_CARDS - Slack)..(MAX_CARDS + Slack))

-----------------------------------------------------------------------------
(* render.js shuffleArray and app.js initializeNewSession on the card array
   of a set *)

MaxShuffle == 3

\* [arr[i], arr[j]] = [arr[j], arr[i]]
Swap(arr, i, j) == [ arr EXCEPT ![i] = arr[j], ![j] = arr[i] ]

\* The loop of shuffleArray from index i down (1-based; the code stops after
\* its index 1), pick[i] in 1..i standing for Math.floor(Math.random() * (i + 1)).
RECURSIVE shuffleFrom(_, _, _)
shuffleFrom(arr, i, pick) ==
    IF i <= 1 THEN arr ELSE shuffleFrom(Swap(arr, i, pick[i]), i - 1, pick)

\* The draws of Math.random() in a shuffle of n elements.
Picks(n) == { pick \in [ 1..n -> 1..n ] : \A i \in 1..n : pick[i] <= i }

\* A shuffle of the array it is handed, without the copy.
shuffleArrayInPlace(array, pick) ==
    LET arr == shuffleFrom(array, Len(array), pick)
    IN  [ array |-> arr, arr |-> arr ]

\* shuffleArray(array): const arr = [...array], the loop, return arr. array is
\* the argument as the call leaves it.
shuffleArray(array, pick) ==
    [ array |-> array, arr |-> shuffleFrom(array, Len(array), pick) ]

\* initializeNewSession(set, mode) on set.cards = order: for mode 'all' the
\* array shuffled is set.cards itself, for 'starred' a filtered copy.
initializeNewSession(order, stars, mode, pick) ==
    LET list == IF mode = "starred" THEN SelectSeq(order, LAMBDA c : c \in stars) ELSE order
        shuffled == shuffleArray(list, pick)
    IN  IF Len(list) < MIN_SESSION_CARDS
        THEN [ order |-> order, session |-> None ]
        ELSE [ order |-> IF mode = "starred" THEN order ELSE shuffled.array,
               session |-> Some(createLearnSession(shuffled.arr, mode, StartTime)) ]

InitializeCall ==
    /\ probe.fn = "set"
    /\ \E pick \in Picks(Len(probe.order)) :
         LET r == initializeNewSession(probe.order, probe.stars, probe.mode, pick)
         IN  probe' = [ probe EXCEPT !.fn = "initializeNewSession", !.after = r.order,
                                     !.result = r.session ]
    /\ UNCHANGED << sessionVars, sm, cache, evicted, loaded, pre, tts, allSets >>

-----------------------------------------------------------------------------
(* spacedRep.js getMasteryLevel and the due date of calculateSM2; ease in
   hundredths *)

MaxReps == 4

\* The conditions of getMasteryLevel tried from the highest level down.
getMasteryLevelHighestFirst(stats) ==
    IF stats = None THEN 0
    ELSE LET s == stats[1]
         IN  IF s.repetitions = 0 THEN 0
             ELSE IF s.repetitions = 1 THEN 1
             ELSE IF s.repetitions = 2 THEN 2
             ELSE IF s.interval >= 60 /\ s.ease >= 250 THEN 5
             ELSE IF s.interval >= 21 /\ s.ease >= 230 THEN 4
             ELSE IF s.interval >= 7 /\ s.ease >= 200 THEN 3
             ELSE Min(s.repetitions, 3)

\* getMasteryLevel(stats)
getMasteryLevel(stats) ==
    IF stats = None THEN 0
    ELSE LET s == stats[1]
         IN  IF s.repetitions = 0 THEN 0
             ELSE IF s.repetitions = 1 THEN 1
             ELSE IF s.repetitions = 2 THEN 2
             ELSE IF s.interval >= 7 /\ s.ease >= 200 THEN 3
             ELSE IF s.interval >= 21 /\ s.ease >= 230 THEN 4
             ELSE IF s.interval >= 60 /\ s.ease >= 250 THEN 5
             ELSE Min(s.repetitions, 3)

\* Stats on both sides of every threshold of getMasteryLevel.
MasteryIntervals == { 1, 6, 7, 20, 21, 59, 60, 61 }
MasteryEases == { 130, 199, 200, 229, 230, 249, 250, 265 }

MasteryCall ==
    /\ probe.fn = "stats"
    /\ probe' = [ probe EXCEPT !.fn = "getMasteryLevel", !.result = getMasteryLevel(probe.stats) ]
    /\ UNCHANGED << sessionVars, sm, cache, evicted, loaded, pre, tts, allSets >>

\* A due date that is the time of the review.
reviewDueAtOnce(newInterval, t) == [ from |-> t, days |-> 0 ]

\* calculateSM2: const dueAt = now + (newInterval * 24 * 60 * 60 * 1000), kept
\* as its two terms: the product is beyond the integers of the model checker.
reviewDueAt(newInterval, t) == [ from |-> t, days |-> newInterval ]

\* isCardDue for a card with such a due date: from + days * DAY_MS <= t
dueBy(dueAt, t) == dueAt.days <= (t - dueAt.from) \div DAY_MS

-----------------------------------------------------------------------------
(* app.js handleGrade between its two writes to localStorage: the card stats
   go out with saveState(), the session later with saveLearnSession() *)

probeRest == << sessionVars, sm, cache, evicted, loaded, pre, tts, allSets >>

RECURSIVE SumOver(_, _)
SumOver(f, S) ==
    IF S = {} THEN 0
    ELSE LET c == CHOOSE c \in S : TRUE IN f[c] + SumOver(f, S \ {c})

\* The reviews of all cards together.
reviewsIn(reviews) == SumOver(reviews, CardIds)

\* Learn mode with SM-2 grading on a new session over the cards in the given
\* order, the first question shown, everything saved.
Studying(order, t) ==
    LET s == Some([ createLearnSession(order, "all", t) EXCEPT !.currentQuestionId = Head(order) ])
        stats == [ c \in CardIds |-> createCardStats ]
        reviews == [ c \in CardIds |-> 0 ]
    IN  [ fn |-> "handleGrade",
          pc |-> "question",            \* where the page is: question, saveState, answered, completion
          grade |-> 0,                  \* the grade of the call under way
          stats |-> stats,              \* card.stats of the set in memory
          reviews |-> reviews,          \* history: calculateSM2 results folded into stats
          session |-> s,                \* the session in memory
          savedStats |-> stats,         \* localStorage STATE
          savedReviews |-> reviews,     \* history: reviews within localStorage STATE
          savedSession |-> saveLearnSession(s, t) ]   \* localStorage LEARN_SESSION

\* handleGrade(grade) as far as saveState(): calculateSM2, updateCard,
\* saveState. The model follows the set for at most MaxAnswers reviews.
handleGradeSaveState(grade) ==
    /\ probe.fn = "handleGrade"
    /\ probe.pc = "question"
    /\ reviewsIn(probe.reviews) < MaxAnswers
    /\ LET c == probe.session[1].currentQuestionId
           stats == [ probe.stats EXCEPT ![c] = calculateSM2(@, grade) ]
           reviews == [ probe.reviews EXCEPT ![c] = @ + 1 ]
       IN  probe' = [ probe EXCEPT !.pc = "saveState", !.grade = grade,
                                   !.stats = stats, !.reviews = reviews,
                                   !.savedStats = stats, !.savedReviews = reviews ]
    /\ UNCHANGED probeRest

\* The rest of handleGrade: the session is changed and saveLearnSession writes it.
handleGradeSaveSession ==
    /\ probe.fn = "handleGrade"
    /\ probe.pc = "saveState"
    /\ \E r \in 2..4 :
         LET s == Some(answer(probe.session[1], probe.grade >= GOOD, r))
         IN  probe' = [ probe EXCEPT !.pc = "answered", !.session = s,
                                     !.savedSession = saveLearnSession(s, now) ]
    /\ UNCHANGED probeRest

\* What nextQuestion() makes of the session m within probe p: the completion
\* screen on an empty queue, else the head of the queue as the question.
questionFrom(p, m) ==
    IF Len(m[1].unseenIds) = 0
    THEN [ p EXCEPT !.pc = "completion", !.session = None, !.savedSession = None ]
    ELSE LET s == Some([ m[1] EXCEPT !.currentQuestionId = Head(m[1].unseenIds) ])
         IN  [ p EXCEPT !.pc = "question", !.session = s,
                        !.savedSession = saveLearnSession(s, now) ]

\* nextQuestion() after an answer, by the timer or the feedback's button.
NextQuestionShown ==
    /\ probe.fn = "handleGrade"
    /\ probe.pc = "answered"
    /\ probe' = questionFrom(probe, probe.session)
    /\ UNCHANGED probeRest

\* The page dies where it is (no beforeunload handler runs in the middle of
\* handleGrade) and is opened again: the set and the session are what
\* localStorage holds, and the session is resumed.
CrashAndResume ==
    /\ probe.fn = "handleGrade"
    /\ probe.pc \in { "question", "saveState", "answered" }
    /\ loadLearnSession(probe.savedSession, now) # None
    /\ probe' = questionFrom([ probe EXCEPT !.stats = probe.savedStats,
                                             !.reviews = probe.savedReviews ],
                             loadLearnSession(probe.savedSession, now))
    /\ UNCHANGED probeRest

-----------------------------------------------------------------------------
(* Values of a specification's variables that another one leaves alone *)

SM2Idle == sm = Unreviewed(NoStats)

CacheIdle == cache = {} /\ evicted = NoEviction

LoadIdle == loaded = NotLoaded

PreIdle == pre = NoPreCache

SpeechIdle == tts = NoSpeech

ProbeIdle == probe = None

CardsIdle == allSets = NoSets

OthersIdle == SM2Idle /\ CacheIdle /\ LoadIdle /\ PreIdle /\ SpeechIdle /\ ProbeIdle /\ CardsIdle

InitSession ==
    /\ now = StartTime
    /\ cards = CardIds
    /\ starred = {1, 2}
    /\ mem = None
    /\ stored = None
    /\ section = "home"
    /\ shown = {"content"}
    /\ buttons = NoButtons
    /\ timers = [ next |-> 0, feedback |-> 0 ]
    /\ batchNonEmpty = FALSE
    /\ sm2 = FALSE
    /\ resumeCard = "hidden"
    /\ graded = {}
    /\ installed = << >>
    /\ raced = FALSE
    /\ finished = None
    /\ alerted = FALSE

Init == InitSession /\ OthersIdle

\* The operations of the learning session, following it for at most cap answers.
SessionStep(cap) ==
    \/ \E g \in Grades : handleGrade(g, cap)
    \/ \E c \in BOOLEAN : handleMultipleChoiceAnswer(c, cap)
    \/ NextQuestionTimer
    \/ FeedbackTimer
    \/ NextQuestionButton
    \/ handleExitLearn
    \/ RestartLearn
    \/ BackToSet
    \/ \E m \in Modes : StudyFromSetView(m)
    \/ handleRandomSet
    \/ handleResumeSession
    \/ navigateToHome
    \/ SelectSet
    \/ handleToggleSM2
    \/ \E g \in BOOLEAN : Reload(g)

\* The learning session, the clock standing still.
Next == SessionStep(MaxAnswers) /\ UNCHANGED << sm, cache, evicted, loaded, pre, tts, probe, allSets >>

Spec == Init /\ [][Next]_vars

\* The learning session with the wall clock running.
NextTime ==
    /\ \/ SessionStep(MaxTimeAnswers)
       \/ \E d \in Waits : PassTime(d)
    /\ UNCHANGED << sm, cache, evicted, loaded, pre, tts, probe, allSets >>

SpecTime == Init /\ [][NextTime]_vars

\* A study session over DrainCards cards in which every answer is successful.
\* It starts where navigateToLearnMode leaves a newly created session: the
\* first question presented, the session saved.
Rotation(k) == [ i \in 1..DrainCards |-> ((i + k - 2) % DrainCards) + 1 ]

InitDrain ==
    /\ now = StartTime
    /\ cards = 1..DrainCards
    /\ starred = cards
    /\ section = "learn"
    /\ timers = [ next |-> 0, feedback |-> 0 ]
    /\ batchNonEmpty = FALSE
    /\ sm2 \in BOOLEAN
    /\ resumeCard = "hidden"
    /\ raced = FALSE
    /\ \E k \in 1..DrainCards, mode \in Modes :
         LET session == Some(createLearnSession(Rotation(k), mode, StartTime))
             nq == nextQuestion(session, saveLearnSession(session, StartTime), FALSE,
                                {"content"}, NoButtons, {}, None)
         IN  /\ installed = Rotation(k)
             /\ mem = nq.mem
             /\ stored = nq.stored
             /\ shown = nq.shown
             /\ buttons = nq.buttons
             /\ graded = nq.graded
             /\ finished = nq.finished
    /\ alerted = FALSE
    /\ OthersIdle

NextDrain ==
    /\ \/ \E g \in {GOOD, EASY} : handleGrade(g, DrainCards)
       \/ handleMultipleChoiceAnswer(TRUE, DrainCards)
       \/ NextQuestionTimer
       \/ handleContinueLearning
    /\ UNCHANGED << sm, cache, evicted, loaded, pre, tts, probe, allSets >>

\* The timers fire and the learner keeps answering and continuing.
SpecDrain == InitDrain /\ [][NextDrain]_vars /\ WF_vars(NextDrain)

\* Reviews of one card, whatever stats it starts with.
InitSM2 == InitSession /\ (\E stats \in StatsGrid : sm = Unreviewed(stats)) /\ CacheIdle /\ LoadIdle /\ PreIdle /\ SpeechIdle /\ ProbeIdle /\ CardsIdle

NextSM2 ==
    /\ \E g \in Grades : Review(g)
    /\ UNCHANGED << sessionVars, cache, evicted, loaded, pre, tts, probe, allSets >>

SpecSM2 == InitSM2 /\ [][NextSM2]_vars

\* The grades a caller can hand to calculateSM2: the four of GRADES, and the
\* integers next to them.
AnyGrades == (AGAIN - 1)..(EASY + 1)

\* Calls of calculateSM2 with any grade, whatever stats the card starts with.
NextGrade ==
    /\ \E g \in AnyGrades : Review(g)
    /\ UNCHANGED << sessionVars, cache, evicted, loaded, pre, tts, probe, allSets >>

SpecGrade == InitSM2 /\ [][NextGrade]_vars

\* The audio cache, from the empty store initAudioDB creates.
InitCache == InitSession /\ SM2Idle /\ CacheIdle /\ LoadIdle /\ PreIdle /\ SpeechIdle /\ ProbeIdle /\ CardsIdle

NextCache ==
    /\ \/ \E k \in CacheKeys, size \in BlobSizes, d \in 0..1 : setCachedAudio(k, size, d)
       \/ \E k \in CacheKeys, d \in 0..1 : getCachedAudio(k, d)
    /\ UNCHANGED << cards, starred, mem, stored, section, shown, buttons, timers,
                    batchNonEmpty, sm2, resumeCard, graded, installed, raced,
                    finished, sm, loaded, pre, alerted, tts, probe, allSets >>

SpecCache == InitCache /\ [][NextCache]_vars

\* The audio store written and read, hits and misses, the last hit remembered.
ReadSizes == { 20 * MB, 45 * MB }
ReadKeys == 1..(MaxKeys + 1)

NextRead ==
    /\ \/ \E k \in ReadKeys, size \in ReadSizes, d \in 0..1 :
            setCachedAudio(k, size, d) /\ probe' = probe
       \/ \E k \in ReadKeys, d \in 0..1 : readCachedAudio(k, d)
    /\ UNCHANGED << cards, starred, mem, stored, section, shown, buttons, timers,
                    batchNonEmpty, sm2, resumeCard, graded, installed, raced,
                    finished, sm, loaded, pre, alerted, tts, allSets >>

SpecRead == InitCache /\ [][NextRead]_vars

\* The sessions the program persists over the cards: a queue, the cards
\* mastered so far, the counters, the mode.
Progress ==
    { << q, m >> \in Perms(CardIds) \X {<< >>} : TRUE }
    \cup { << << x[1] >>, << x[2] >> >> : x \in { y \in CardIds \X CardIds : y[1] # y[2] } }

PersistedSessions(t) ==
    { [ createLearnSession(p[1], mode, t)
          EXCEPT !.masteredIds = p[2],
                 !.currentQuestionId = p[1][1],
                 !.questionsAnswered = Len(p[2]) + wrong,
                 !.correctCount = Len(p[2]) ] :
        p \in Progress, mode \in Modes, wrong \in 0..1 }

\* The ages at which the persisted session is loaded.
LoadAges == { 0, 6 * DAY_MS, SESSION_EXPIRY_MS - 1, SESSION_EXPIRY_MS,
              SESSION_EXPIRY_MS + 1, 8 * DAY_MS }

\* A page load some time after a session was last saved, or with none saved.
InitLoad ==
    /\ \E age \in LoadAges : now = StartTime + age
    /\ stored \in { None } \cup { Some(s) : s \in PersistedSessions(StartTime) }
    /\ cards = CardIds
    /\ starred = {1, 2}
    /\ mem = None
    /\ section = "home"
    /\ shown = {"content"}
    /\ buttons = NoButtons
    /\ timers = [ next |-> 0, feedback |-> 0 ]
    /\ batchNonEmpty = FALSE
    /\ sm2 = FALSE
    /\ resumeCard = "hidden"
    /\ graded = {}
    /\ installed = << >>
    /\ raced = FALSE
    /\ finished = None
    /\ alerted = FALSE
    /\ SM2Idle /\ CacheIdle /\ LoadIdle /\ PreIdle /\ SpeechIdle /\ ProbeIdle /\ CardsIdle

NextLoad ==
    /\ LoadStep
    /\ UNCHANGED << now, cards, starred, mem, section, shown, buttons, timers,
                    batchNonEmpty, sm2, resumeCard, graded, installed, raced,
                    finished, sm, cache, evicted, pre, alerted, tts, probe, allSets >>

SpecLoad == InitLoad /\ [][NextLoad]_vars

\* saveLearnSession(state.learnSession) and, right after it, loadLearnSession().
SaveLoadStep ==
    /\ ~loaded.called
    /\ LET st == saveLearnSession(mem, now)
       IN  /\ loaded' = [ called |-> TRUE, at |-> now, entry |-> st,
                          result |-> loadLearnSession(st, now) ]
           /\ stored' = loadLearnSessionStorage(st, now)

\* A session in memory that was created or loaded some time ago, or none, and
\* nothing persisted.
InitRoundTrip ==
    /\ \E age \in LoadAges : now = StartTime + age
    /\ mem \in { None } \cup { Some(s) : s \in PersistedSessions(StartTime) }
    /\ stored = None
    /\ cards = CardIds
    /\ starred = {1, 2}
    /\ section = "learn"
    /\ shown = {"content"}
    /\ buttons = NoButtons
    /\ timers = [ next |-> 0, feedback |-> 0 ]
    /\ batchNonEmpty = FALSE
    /\ sm2 = FALSE
    /\ resumeCard = "hidden"
    /\ graded = {}
    /\ installed = << >>
    /\ raced = FALSE
    /\ finished = None
    /\ alerted = FALSE
    /\ SM2Idle /\ CacheIdle /\ LoadIdle /\ PreIdle /\ SpeechIdle /\ ProbeIdle /\ CardsIdle

NextRoundTrip ==
    /\ SaveLoadStep
    /\ UNCHANGED << now, cards, starred, mem, section, shown, buttons, timers,
                    batchNonEmpty, sm2, resumeCard, graded, installed, raced,
                    finished, alerted, sm, cache, evicted, pre, tts, probe, allSets >>

SpecRoundTrip == InitRoundTrip /\ [][NextRoundTrip]_vars

\* The learning session by multiple-choice clicks in a set whose cards get
\* deleted.
NextDelete ==
    /\ \/ \E c \in BOOLEAN : handleMultipleChoiceAnswer(c, MaxAnswers)
       \/ NextQuestionTimer
       \/ FeedbackTimer
       \/ NextQuestionButton
       \/ handleExitLearn
       \/ RestartLearn
       \/ BackToSet
       \/ \E m \in Modes : StudyFromSetView(m)
       \/ handleStudy5Min
       \/ handleResumeSession
       \/ navigateToHome
       \/ SelectSet
       \/ \E c \in CardIds : handleDeleteCard(c)
    /\ UNCHANGED << sm, cache, evicted, loaded, pre, tts, probe, allSets >>

SpecDelete == Init /\ [][NextDelete]_vars

\* Requests for a session over a set whose cards get deleted and unstarred,
\* with the wall clock running; no question is answered.
NextRequest ==
    /\ \/ \E m \in Modes : StudyFromSetView(m)
       \/ handleStudy5Min
       \/ handleResumeSession
       \/ handleExitLearn
       \/ navigateToHome
       \/ SelectSet
       \/ \E c \in CardIds : handleDeleteCard(c)
       \/ \E c \in CardIds : handleToggleStar(c)
       \/ \E d \in Waits : PassTime(d)
    /\ UNCHANGED << sm, cache, evicted, loaded, pre, tts, probe, allSets >>

SpecRequest == Init /\ [][NextRequest]_vars

\* Pre-caching with the set opened again and again while the drain runs.
InitPre == InitSession /\ OthersIdle

NextPre ==
    \/ \E premium \in BOOLEAN : SelectSetPreCache(premium)
    \/ LeaveSet
    \/ \E c \in CardIds : handleToggleStar(c)
    \/ \E i \in 1..MaxRuns : LookupDone(i)
    \/ \E i \in 1..MaxRuns, outcome \in FetchOutcomes : FetchDone(i, outcome)
    \/ \E i \in 1..MaxRuns : PutDone(i)
    \/ ContinuationTimer

SpecPre == InitPre /\ [][NextPre]_vars

\* Every pending lookup, fetch, put and continuation timer settles in the end.
FairPre ==
    /\ WF_vars(\E i \in 1..MaxRuns : LookupDone(i))
    /\ WF_vars(\E i \in 1..MaxRuns, outcome \in FetchOutcomes : FetchDone(i, outcome))
    /\ WF_vars(\E i \in 1..MaxRuns : PutDone(i))
    /\ WF_vars(ContinuationTimer)

\* The set opened and left again and again, the stars as they are.
NextPreFair ==
    \/ \E premium \in BOOLEAN : SelectSetPreCache(premium)
    \/ LeaveSet
    \/ \E i \in 1..MaxRuns : LookupDone(i)
    \/ \E i \in 1..MaxRuns, outcome \in FetchOutcomes : FetchDone(i, outcome)
    \/ \E i \in 1..MaxRuns : PutDone(i)
    \/ ContinuationTimer

SpecPreFair == InitPre /\ [][NextPreFair]_vars /\ FairPre

\* Speech and the audio store, with the database open or not and speech
\* synthesis present or not.
InitSpeak ==
    /\ InitSession /\ SM2Idle /\ CacheIdle /\ LoadIdle /\ PreIdle /\ ProbeIdle /\ CardsIdle
    /\ \E db \in BOOLEAN, synth \in BOOLEAN, usePremium \in BOOLEAN, key \in KeyKinds :
         tts = [ NoSpeech EXCEPT !.audioDB = db, !.synth = synth,
                                 !.usePremium = usePremium, !.key = key ]

NextSpeak ==
    \/ \E text \in CardIds : speak(text)
    \/ stop
    \/ \E i \in 1..MaxCalls : SpeakLookupDone(i)
    \/ \E i \in 1..MaxCalls, outcome \in FetchOutcomes : SpeakFetchDone(i, outcome)
    \/ \E i \in 1..MaxCalls : SpeakPutDone(i)
    \/ clearAudioCache
    \/ \E u \in 1..MaxClips : AudioEnded(u)
    \/ \E u \in 1..MaxClips : PlayRejected(u)
    \/ UtteranceEnded
    \/ \E usePremium \in BOOLEAN, key \in KeyKinds : handleSaveSettings(usePremium, key)

SpecSpeak == InitSpeak /\ [][NextSpeak]_vars

\* Pre-caching under the settings of the moment, saved again while the drain
\* runs.
InitSettings ==
    /\ InitSession /\ SM2Idle /\ CacheIdle /\ LoadIdle /\ PreIdle /\ ProbeIdle /\ CardsIdle
    /\ \E usePremium \in BOOLEAN, key \in KeyKinds :
         tts = [ NoSpeech EXCEPT !.usePremium = usePremium, !.key = key ]

NextSettings ==
    \/ SelectSetPreCache(PreCacheEnabled(tts))
    \/ LeaveSet
    \/ \E usePremium \in BOOLEAN, key \in KeyKinds : handleSaveSettings(usePremium, key)
    \/ \E i \in 1..MaxRuns : LookupDone(i)
    \/ \E i \in 1..MaxRuns, outcome \in FetchOutcomes : FetchDone(i, outcome)
    \/ \E i \in 1..MaxRuns : PutDone(i)
    \/ ContinuationTimer

SpecSettings == InitSettings /\ [][NextSettings]_vars

\* The due queries on one card, with stats or without, at one time.
InitDue ==
    /\ InitSession /\ SM2Idle /\ CacheIdle /\ LoadIdle /\ PreIdle /\ SpeechIdle /\ CardsIdle
    /\ \E stats \in { None, Some([ dueAt |-> None ]) }
                      \cup { Some([ dueAt |-> Some(d) ]) : d \in 0..(StartTime + MaxDue) },
          t \in StartTime..(StartTime + MaxDue) :
         probe = [ fn |-> "card", stats |-> stats, now |-> t, result |-> "none" ]

NextDue == \E q \in DueQueries : DueQuery(q)

SpecDue == InitDue /\ [][NextDue]_vars

\* getCacheKey on two texts and two voice ids.
InitKey ==
    /\ InitSession /\ SM2Idle /\ CacheIdle /\ LoadIdle /\ PreIdle /\ SpeechIdle /\ CardsIdle
    /\ \E t1 \in KeyTexts, t2 \in KeyTexts, v1 \in VoiceIds, v2 \in VoiceIds :
         probe = [ fn |-> "texts", a |-> [ text |-> t1, voiceId |-> v1 ],
                   b |-> [ text |-> t2, voiceId |-> v2 ], result |-> "none" ]

NextKey == KeyCall

SpecKey == InitKey /\ [][NextKey]_vars

\* Sets made, filled by hand, by pasted text and from files.
InitCards ==
    /\ InitSession /\ SM2Idle /\ CacheIdle /\ LoadIdle /\ PreIdle /\ SpeechIdle /\ ProbeIdle
    /\ allSets = NoSets

NextCards ==
    \/ handleCreateSet
    \/ AddCardSubmit
    \/ \E n \in ImportSizes : handleBulkImport(n)
    \/ \E n \in {0} \cup ImportSizes : handleImportSet(n)

SpecCards == InitCards /\ [][NextCards]_vars

\* initializeNewSession on sets of 2..MaxShuffle cards in any order, any of
\* them starred.
InitShuffle ==
    /\ InitSession /\ SM2Idle /\ CacheIdle /\ LoadIdle /\ PreIdle /\ SpeechIdle /\ CardsIdle
    /\ \E n \in MIN_SESSION_CARDS..MaxShuffle :
         \E order \in Perms(1..n), stars \in SUBSET (1..n), mode \in Modes :
           probe = [ fn |-> "set", order |-> order, stars |-> stars, mode |-> mode,
                     after |-> order, result |-> None ]

NextShuffle == InitializeCall

SpecShuffle == InitShuffle /\ [][NextShuffle]_vars

\* getMasteryLevel on one card's stats.
InitMastery ==
    /\ InitSession /\ SM2Idle /\ CacheIdle /\ LoadIdle /\ PreIdle /\ SpeechIdle /\ CardsIdle
    /\ \E stats \in { None } \cup { Some(s) : s \in [ ease : MasteryEases, interval : MasteryIntervals,
                                                      repetitions : 0..MaxReps ] } :
         probe = [ fn |-> "stats", stats |-> stats, result |-> 0 ]

NextMastery == MasteryCall

SpecMastery == InitMastery /\ [][NextMastery]_vars

\* SM-2 answers to a new session, the page dying at any of the places where
\* handleGrade has written a part of what it writes.
InitCrash ==
    /\ InitSession /\ SM2Idle /\ CacheIdle /\ LoadIdle /\ PreIdle /\ SpeechIdle /\ CardsIdle
    /\ \E order \in Perms(CardIds) : probe = Studying(order, now)

NextCrash ==
    \/ \E grade \in Grades : handleGradeSaveState(grade)
    \/ handleGradeSaveSession
    \/ NextQuestionShown
    \/ CrashAndResume

SpecCrash == InitCrash /\ [][NextCrash]_vars

-----------------------------------------------------------------------------
(* Claims about the learning session *)

\* The cards of the session in memory that were answered successfully, and
\* those still waiting in the queue.
Mastered == IF mem = None THEN {} ELSE Range(mem[1].masteredIds)
Queued == IF mem = None THEN {} ELSE Range(mem[1].unseenIds)

\* C1: in every reachable state with a session in memory, every card the
\* session was created over that has not been answered successfully (is not
\* in masteredIds) is still in the queue unseenIds.
C1_FailedCardStaysInPlay ==
    mem # None => \A c \in Range(installed) : c \notin Mastered => c \in Queued

\* C2: in every reachable state the queue unseenIds and masteredIds of the
\* session in memory have no card id in common.
C2_QueueMasteredDisjoint == Queued \cap Mastered = {}

\* Sanity of the two above: they fail only after an answer was applied to a
\* question that had already been answered (a second grade key before the
\* next question was presented).
OnlyRacesLoseCards ==
    ~raced => C1_FailedCardStaysInPlay /\ C2_QueueMasteredDisjoint

\* Two sessions agree on what a snapshot must preserve.
SameSnapshot(a, b) ==
    /\ a.unseenIds = b.unseenIds
    /\ a.masteredIds = b.masteredIds
    /\ a.questionsAnswered = b.questionsAnswered
    /\ a.correctCount = b.correctCount
    /\ a.mode = b.mode

\* A step of one of the two answer handlers.
AnswerStep ==
    \/ \E g \in Grades : handleGrade(g, MaxTimeAnswers)
    \/ \E c \in BOOLEAN : handleMultipleChoiceAnswer(c, MaxTimeAnswers)

\* A step that closes the page and opens it again.
ReloadStep == \E g \in BOOLEAN : Reload(g)

\* When an answer handler returns, the persisted session equals the session
\* in memory on queue, masteredIds, counters and mode, stamped with the time
\* of the answer.
AnswerIsPersisted ==
    AnswerStep => /\ stored' # None
                  /\ mem' # None
                  /\ SameSnapshot(stored'[1], mem'[1])
                  /\ stored'[1].savedAt = now'

\* A reload brings back the session that was in memory, with every answer
\* given so far.
ReloadKeepsAnswers ==
    ReloadStep /\ mem # None => mem' # None /\ SameSnapshot(mem'[1], mem[1])

\* C3 as stated: every answer is persisted as it is given, and a reload at
\* any later moment brings back the session with every answer given so far.
C3_ReloadAtAnyLaterMoment ==
    [][AnswerIsPersisted /\ ReloadKeepsAnswers]_vars

\* C3: every answer is persisted as it is given (queue, masteredIds,
\* questionsAnswered, correctCount, mode, savedAt = time of the answer), and a
\* reload while the persisted session is at most 7 days old brings back the
\* session with every answer given so far.
C3_AnswerPersistedReloadWithinExpiry ==
    [][/\ AnswerIsPersisted
       /\ (stored # None /\ ~Expired(stored, now)) => ReloadKeepsAnswers]_vars

\* An answer given some time after the session was created has been persisted.
C3_Witness ==
    /\ graded # {}
    /\ mem # None
    /\ stored # None
    /\ stored[1].savedAt = now
    /\ now > mem[1].startedAt
    /\ stored[1].questionsAnswered > 0

\* A step that starts studying or resumes: the resume card, the study buttons
\* of the set view, the random-set quick action, the restart button.
StudyStartStep ==
    \/ handleResumeSession
    \/ \E m \in Modes : StudyFromSetView(m)
    \/ handleRandomSet
    \/ RestartLearn

\* A freshly created session: nothing mastered, nothing answered.
Fresh(s) == s # None /\ s[1].masteredIds = << >> /\ s[1].questionsAnswered = 0

\* C9: when a resume or study start happens while the persisted session is
\* older than 7 days, the session installed in memory and written to storage
\* is freshly created, whatever copy of the old session is still in memory.
C9_ExpiredSessionNotContinued ==
    [][StudyStartStep /\ Expired(stored, now) /\ section' = "learn"
         => Fresh(mem') /\ Fresh(stored')]_vars

\* A step that runs nextQuestion() on the session in memory.
AdvanceStep == NextQuestionTimer \/ NextQuestionButton \/ handleContinueLearning

\* nextQuestion() would show the batch summary instead of advancing.
SummaryDue ==
    /\ mem # None
    /\ mem[1].questionsAnswered > 0
    /\ mem[1].questionsAnswered % BATCH_SIZE = 0
    /\ batchNonEmpty

\* The completion panel is what the learn section shows.
Complete == "completion" \in shown /\ "content" \notin shown

Drained ==
    /\ finished # None
    /\ finished[1].unseenIds = << >>
    /\ Len(finished[1].masteredIds) = Len(installed)
    /\ Range(finished[1].masteredIds) = Range(installed)
    /\ finished[1].questionsAnswered = Len(installed)
    /\ Complete
    /\ mem = None

\* C7: a newly created session over n cards whose answers are all successful,
\* each followed by the advance to the next question (and by Continue on the
\* batch summary), eventually completes with the queue empty and all n cards
\* in masteredIds.
C7_SuccessesDrainToComplete == <>(raced \/ Drained)

\* A session of DrainCards cards was drained by one successful answer per card.
C7_Witness == Drained /\ ~raced /\ Len(installed) = DrainCards

-----------------------------------------------------------------------------
(* Claims about calculateSM2 *)

\* C4: whenever calculateSM2 is given stats with ease >= 1.3 (and a grade in
\* 1..4) the ease it returns is >= 1.3; and a card that started with the
\* stats of createCard has ease >= 1.3 after every sequence of grades.
C4_EaseFloor ==
    /\ (sm.grade \in Grades /\ sm.prev.ease >= MIN_EASE) => sm.stats.ease >= MIN_EASE
    /\ sm.fresh => sm.stats.ease >= MIN_EASE

\* A failed review of a card already at the floor left it at the floor.
C4_Witness ==
    /\ sm.grade = AGAIN
    /\ sm.prev.ease >= MIN_EASE
    /\ sm.prev.ease - 20 < MIN_EASE
    /\ sm.stats.ease = MIN_EASE

\* C5: calculateSM2 returns repetitions 0 exactly when the grade is Again,
\* and then interval 1 whatever the input repetitions and interval; for Hard,
\* Good and Easy it returns the input repetitions plus 1 (stats with
\* repetitions >= 0, as createCard and calculateSM2 produce).
C5_RepetitionsReset ==
    sm.grade \in Grades =>
        /\ (sm.stats.repetitions = 0) <=> (sm.grade = AGAIN)
        /\ sm.grade = AGAIN => sm.stats.interval = 1
        /\ sm.grade # AGAIN => sm.stats.repetitions = sm.prev.repetitions + 1

\* A failed review of a card with repetitions and a longer interval.
C5_Witness ==
    /\ sm.grade = AGAIN
    /\ sm.prev.repetitions > 1
    /\ sm.prev.interval > 1
    /\ sm.stats.repetitions = 0
    /\ sm.stats.interval = 1

-----------------------------------------------------------------------------
(* Claims about the audio cache *)

\* The entries of the last put's store in index order, their total, and the
\* keys of the first k of them.
PutEntries == evicted.entries
PutTotal == SeqBytes(PutEntries)
PrefixKeys(k) == [ i \in 1..k |-> PutEntries[i].key ]
PrefixBytes(k) == SeqBytes(SubSeq(PutEntries, 1, k))
MaxBytes == CACHE_SIZE_MB * MB

\* Removing the first k entries brings the total to at most 0.8 * maxBytes.
Enough(k) == 5 * (PutTotal - PrefixBytes(k)) <= 4 * MaxBytes

\* C6: after a put, the entries being taken in ascending accessedAt order:
\* if their total is at most maxBytes nothing was deleted; if it exceeds
\* maxBytes, the deleted keys are those of the shortest prefix whose removal
\* brings the total to at most 0.8 * maxBytes, the store holds the rest, and
\* its total is at most 0.8 * maxBytes.
C6_EvictionShortestOldestPrefix ==
    evicted.put =>
    /\ \A i, j \in 1..Len(PutEntries) :
         i < j => PutEntries[i].accessedAt <= PutEntries[j].accessedAt
    /\ PutTotal <= MaxBytes =>
         evicted.deleted = << >> /\ cache = Range(PutEntries)
    /\ PutTotal > MaxBytes =>
         \E k \in 0..Len(PutEntries) :
           /\ Enough(k)
           /\ \A j \in 0..(k - 1) : ~Enough(j)
           /\ evicted.deleted = PrefixKeys(k)
           /\ cache = { PutEntries[i] : i \in (k + 1)..Len(PutEntries) }
           /\ 5 * SetBytes(cache) <= 4 * MaxBytes

\* A put took the store over the limit and the oldest entry, not the newer
\* one, was deleted.
C6_Witness ==
    /\ evicted.put
    /\ PutTotal > MaxBytes
    /\ Len(PutEntries) = 2
    /\ PutEntries[1].accessedAt < PutEntries[2].accessedAt
    /\ evicted.deleted = << PutEntries[1].key >>
    /\ cache = { PutEntries[2] }

\* C18: calculateSM2 called with a grade outside {1, 2, 3, 4} fails with an
\* error: it returns no updated stats, so the card keeps the stats it had.
C18_InvalidGradeRejected ==
    (sm.reviews > 0 /\ sm.grade \notin Grades) => sm.stats = sm.prev

-----------------------------------------------------------------------------
(* Claims about loadLearnSession *)

\* The age of the entry the last loadLearnSession met.
LoadedAge == loaded.at - loaded.entry[1].savedAt

\* C10: loadLearnSession called on a persisted session returns that session
\* if and only if now - savedAt <= 7 days, and then leaves the entry in
\* place; when the session is older it returns absent and the entry is gone.
\* A session saved 6 days ago is returned, one saved 8 days ago is not.
C10_LoadWithinSevenDays ==
    (loaded.called /\ loaded.entry # None) =>
        /\ (loaded.result = loaded.entry) <=> (LoadedAge <= 7 * DAY_MS)
        /\ LoadedAge <= 7 * DAY_MS => stored = loaded.entry
        /\ LoadedAge > 7 * DAY_MS => loaded.result = None /\ stored = None
        /\ LoadedAge = 6 * DAY_MS => loaded.result = loaded.entry
        /\ LoadedAge = 8 * DAY_MS => loaded.result = None

\* A session of exactly 7 days was loaded and kept.
C10_Witness ==
    /\ loaded.called
    /\ loaded.entry # None
    /\ LoadedAge = 7 * DAY_MS
    /\ loaded.result = loaded.entry
    /\ stored = loaded.entry

\* C19: loading right after saving a session s returns a session equal to s
\* on every field: setId, queue, masteredIds, currentQuestionId,
\* questionsAnswered, correctCount, mode, startedAt and savedAt.
C19_SaveLoadRoundTrip == loaded.called => loaded.result = mem

-----------------------------------------------------------------------------
(* Claims about pre-caching (SpecPre) *)

\* A step in which navigateToSetView called preCacheCards with premium speech on.
PreCacheCall == section = "home" /\ section' = "set" /\ pre'.op = "preCacheCards"

\* The queue q, as it was before a call, is the beginning of the queue r after it.
StillPending(q, r) == Len(q) <= Len(r) /\ SubSeq(r, 1, Len(q)) = q

\* C11: when preCacheCards is called while a drain is in progress, the new
\* candidates are appended to the queue: every candidate pending before the
\* call is still pending after it.
C11_CallAppendsToQueue ==
    [][ PreCacheCall /\ pre.isPreCaching => StillPending(pre.queue, pre'.queue) ]_vars

\* C12: whatever the interleaving of preCacheCards calls with the awaits of the
\* drain and its continuation timer, at most one activation of
\* processPreCacheQueue has taken a candidate and not finished, and at most one
\* continuation timer is pending.
C12_OneDrainInFlight == Len(pre.runs) <= 1 /\ pre.timers <= 1

\* preCacheCards was called while an activation waited for its fetch, which
\* then succeeded: the activation waits for its put, new candidates queued.
C12_Witness ==
    /\ Len(pre.runs) = 1
    /\ pre.runs[1].stale
    /\ pre.runs[1].pc = "put"
    /\ Len(pre.queue) > 0

\* C13: within one pass over a candidate list, a term whose fetch failed is
\* not fetched again.
C13_FailedFetchNotRetried ==
    \A i \in pre.failedAt :
        \A j \in (i + 1)..Len(pre.issued) : pre.issued[j] # pre.issued[i]

-----------------------------------------------------------------------------
(* Claims about sessions over a set that changes (SpecDelete, SpecRequest) *)

\* The learn screen presents a question of the session in memory.
Presenting == section = "learn" /\ mem # None /\ "content" \in shown

\* C14: a queued id whose card has been deleted from the set is skipped: the
\* question the session presents is never one of a deleted card.
C14_DeletedCardSkipped == Presenting => mem[1].currentQuestionId \in cards

\* A session with cards still queued.
Unfinished(s) == s # None /\ Len(s[1].unseenIds) > 0

\* A request for a session that can come while the set has too few cards:
\* the Study quick action, the resume card, the study buttons of the set view.
RequestStep ==
    \/ handleStudy5Min
    \/ handleResumeSession
    \/ \E m \in Modes : StudyFromSetView(m)

\* The Study quick action finds no session to continue and fewer than two
\* cards to study.
TooFewCards ==
    /\ ~Unfinished(loadLearnSession(stored, now))
    /\ Cardinality(cards) < MIN_SESSION_CARDS

-----------------------------------------------------------------------------
(* Claims about exit and resume (Spec) *)

C20_OnePolicyPerQuestion == ~({"sm2", "mc"} \subseteq graded)

-----------------------------------------------------------------------------
(* Claims about the batch summary (SpecDrain) *)

\* C15: the batch summary is surfaced only while unanswered cards remain: when
\* the queue is empty no summary is shown (the session goes to Complete). Every
\* question was answered once.
C15_NoSummaryOnEmptyQueue ==
    ("summary" \in shown /\ ~raced) => (mem # None /\ Len(mem[1].unseenIds) > 0)

-----------------------------------------------------------------------------
(* Claims about the answer handlers and the queue (Spec) *)

\* A step of handleGrade or handleMultipleChoiceAnswer: one more question
\* answered; a failing one leaves correctCount as it was.
Answered ==
    mem # None /\ mem' # None /\ mem'[1].questionsAnswered = mem[1].questionsAnswered + 1

Failed == Answered /\ mem'[1].correctCount = mem[1].correctCount

\* C28: whenever an answer handler runs, the card it grades, currentQuestionId,
\* is the card it pops, unseenIds[0].
C28_AnswerGradesQueueHead ==
    [][ Answered => /\ Len(mem[1].unseenIds) > 0
                    /\ mem[1].currentQuestionId = Head(mem[1].unseenIds) ]_vars

\* How many times card c occurs in the sequence q.
Occurrences(q, c) == Cardinality({ i \in 1..Len(q) : q[i] = c })

\* C29: in every state of a session, the queue and masteredIds together hold
\* each card id installed at the session's creation exactly once.
C29_CardConservation ==
    mem # None =>
        /\ Len(mem[1].unseenIds) + Len(mem[1].masteredIds) = Len(installed)
        /\ \A c \in Range(installed) :
             Occurrences(mem[1].unseenIds, c) + Occurrences(mem[1].masteredIds, c) = 1

\* C30: after a failing answer the failed card is not the next question,
\* unless it was the only card in the queue when it was answered.
C30_FailedCardNotNext ==
    [][ (Failed /\ Len(mem[1].unseenIds) # 1)
          => /\ Len(mem'[1].unseenIds) > 0
             /\ Head(mem'[1].unseenIds) # mem[1].currentQuestionId ]_vars

-----------------------------------------------------------------------------
(* Claims about speech and the audio store (SpecSpeak, SpecSettings) *)

\* A function of tts.js or storage.js ran and left the speech state changed.
Ran(name) == tts' # tts /\ tts'.op = name

\* C21: while the audio database is not open, no cache function throws and the
\* store stays as it is: getCachedAudio resolves to null and the call goes on
\* to the fetch, setCachedAudio resolves to false and the clip is played all
\* the same, clearAudioCache does nothing.
C21_ClosedStoreDegrades ==
    [][ ~tts.audioDB =>
          /\ cache' = cache
          /\ Ran("getCachedAudio") =>
               /\ tts'.result = "null" /\ ~tts'.thrown
               /\ \E i \in DOMAIN tts.calls :
                    tts.calls[i].pc = "lookup" /\ tts'.calls[i].pc = "fetch"
          /\ Ran("setCachedAudio") =>
               /\ tts'.result = "false" /\ ~tts'.thrown
               /\ tts'.currentAudio # None /\ tts'.currentAudio[1] \in tts'.playing
          /\ Ran("clearAudioCache") => tts'.result = "none" /\ ~tts'.thrown ]_vars

\* A clip is played after setCachedAudio failed for want of a database.
C21_Witness ==
    ~tts.audioDB /\ tts.op = "setCachedAudio" /\ tts.result = "false" /\ tts.currentAudio # None

\* C22: a pre-cache fetch is issued, and a fetched clip is put in the store,
\* only in a state where the premium switch is on and a key is set.
C22_PreCacheOnlyWhenPremium ==
    [][ (pre' # pre /\ pre'.op \in { "fetch", "put" }) => PreCacheEnabled(tts) ]_vars

\* C23: after stop() with a clip playing, the object URL of the clip is revoked.
C23_StopRevokesUrl ==
    [][ (Ran("stop") /\ tts.currentAudio # None) => tts.currentAudio[1] \notin tts'.urls ]_vars

\* C24: stop() never throws and leaves isSpeaking false and currentAudio null,
\* whatever the state; a second stop() changes nothing more.
C24_StopTotalIdempotent ==
    [][ tts'.op = "stop" =>
          /\ ~tts'.thrown /\ ~tts'.isSpeaking /\ tts'.currentAudio = None
          /\ stopped(tts') = tts' ]_vars

-----------------------------------------------------------------------------
(* Claims about the due queries, the size of a set and the cache key *)

\* C25: for a card without stats or with a due time, each due query answers
\* "due" exactly when the stats are absent or dueAt is not after now.
C25_DueQueriesAgree ==
    (probe # None /\ probe.fn \in DueQueries
       /\ (probe.stats = None \/ probe.stats[1].dueAt # None))
      => probe.result = Answer(probe.stats = None \/ probe.stats[1].dueAt[1] <= probe.now)

\* C26: no set holds more than 500 cards.
C26_AtMost500Cards ==
    \A i \in DOMAIN allSets.sizes : allSets.sizes[i] <= MAX_CARDS

First100(text) == SubSeq(text, 1, Min(Len(text), KEY_TEXT_LENGTH))

\* C27: two calls of getCacheKey whose texts agree on their first 100
\* characters and whose voice ids are the same give the same key.
C27_KeyFromFirst100AndVoice ==
    (probe # None /\ probe.fn = "getCacheKey"
       /\ First100(probe.a.text) = First100(probe.b.text)
       /\ probe.a.voiceId = probe.b.voiceId)
      => probe.result[1] = probe.result[2]

\* Two texts that differ only after their first 100 characters got one key.
C27_Witness ==
    /\ probe # None /\ probe.fn = "getCacheKey"
    /\ probe.a.text # probe.b.text
    /\ Len(probe.a.text) > KEY_TEXT_LENGTH
    /\ probe.a.voiceId = probe.b.voiceId
    /\ probe.result[1] = probe.result[2]

-----------------------------------------------------------------------------
(* Claims about continuing from the batch summary (SpecDrain) *)

\* handleContinueLearning ran: the summary was up and the batch history, not
\* empty before, is empty after.
Continued == "summary" \in shown /\ batchNonEmpty /\ ~batchNonEmpty'

\* C40: continuing from the batch summary leaves the session's queue,
\* masteredIds, questionsAnswered and correctCount as they were, and the
\* question then presented is the head of that queue.
C40_SummaryIsPresentationOnly ==
    [][ Continued =>
          /\ mem # None /\ mem' # None
          /\ mem'[1].unseenIds = mem[1].unseenIds
          /\ mem'[1].masteredIds = mem[1].masteredIds
          /\ mem'[1].questionsAnswered = mem[1].questionsAnswered
          /\ mem'[1].correctCount = mem[1].correctCount
          /\ "content" \in shown'
          /\ Len(mem[1].unseenIds) > 0
          /\ mem'[1].currentQuestionId = Head(mem[1].unseenIds) ]_vars

-----------------------------------------------------------------------------
(* Claims about the creation of a session (Spec) *)

\* The cards of a session: those queued and those mastered.
SessionCards(s) == Range(s.unseenIds) \cup Range(s.masteredIds)

\* C31: after a study button of the set view is clicked for a mode with at
\* least 2 applicable cards, the session in memory has that mode and its cards
\* are exactly the cards applicable to it, whatever session was saved before.
C31_ChosenModeInstalled ==
    [][ \A m \in Modes :
          StudyFromSetView(m) =>
            /\ mem' # None
            /\ mem'[1].mode = m
            /\ SessionCards(mem'[1]) = ApplicableCards(m) ]_vars

\* The cards initializeNewSession takes for the mode asked.
ProbeApplicable == IF probe.mode = "starred" THEN Range(probe.order) \cap probe.stars
                   ELSE Range(probe.order)

\* C35: the queue of a session just created holds each card applicable to the
\* mode once and nothing else, masteredIds is empty, questionsAnswered and
\* correctCount are 0, and the card array of the set is in the order it had.
C35_NewSessionIsPermutation ==
    (probe # None /\ probe.fn = "initializeNewSession" /\ probe.result # None)
      => LET s == probe.result[1]
         IN  /\ Range(s.unseenIds) = ProbeApplicable
             /\ Len(s.unseenIds) = Cardinality(ProbeApplicable)
             /\ s.masteredIds = << >>
             /\ s.questionsAnswered = 0 /\ s.correctCount = 0
             /\ s.mode = probe.mode
             /\ probe.after = probe.order

\* A session created for all cards with a queue in another order than the set's.
C35_Witness ==
    /\ probe # None /\ probe.fn = "initializeNewSession" /\ probe.result # None
    /\ probe.mode = "all"
    /\ probe.result[1].unseenIds # probe.order

-----------------------------------------------------------------------------
(* Claims about the mastery level and the review stats (SpecMastery, SpecSM2) *)

C37_ReviewedCardNotDue ==
    (sm.fresh /\ sm.reviews > 0)
      => /\ sm.stats.interval \in Nat /\ sm.stats.interval >= 1
         /\ sm.stats.repetitions \in Nat
         /\ ~dueBy(reviewDueAt(sm.stats.interval, now), now)

\* A card that was new, after several reviews, the last one graded Hard and
\* leaving an interval of more than a day.
C37_Witness ==
    /\ sm.fresh /\ sm.reviews > 2 /\ sm.grade = HARD
    /\ sm.stats.interval > 1

-----------------------------------------------------------------------------
(* Claims about reads and writes of the audio store (SpecCache, SpecRead) *)

\* C39: when setCachedAudio(key, blob, maxSizeMB) has returned true, the store
\* holds an entry for key: the eviction after the put does not delete the
\* entry just written.
C39_PutKeepsItsEntry ==
    [][ \A k \in CacheKeys, size \in BlobSizes, d \in 0..1 :
          setCachedAudio(k, size, d) => \E e \in cache' : e.key = k ]_vars

\* The entry of key k in store S, or None.
EntryOf(S, k) == IF \E e \in S : e.key = k THEN Some(CHOOSE e \in S : e.key = k) ELSE None

\* C34: a getCachedAudio that hits key k at time t leaves k's entry with
\* accessedAt = t and its size as it was, and the other entries unchanged; a
\* miss changes no entry; and an eviction that deletes an entry has deleted
\* every entry last read or written before it.
C34_ReadIsRecencySignal ==
    [][ /\ \A k \in ReadKeys, d \in 0..1 :
             readCachedAudio(k, d) =>
               IF EntryOf(cache, k) = None
               THEN cache' = cache
               ELSE /\ EntryOf(cache', k) = Some([ EntryOf(cache, k)[1] EXCEPT !.accessedAt = now' ])
                    /\ \A j \in ReadKeys \ {k} : EntryOf(cache', j) = EntryOf(cache, j)
        /\ evicted'.put =>
             \A i \in DOMAIN evicted'.entries :
               evicted'.entries[i].key \in Range(evicted'.deleted) =>
                 \A j \in DOMAIN evicted'.entries :
                   evicted'.entries[j].accessedAt < evicted'.entries[i].accessedAt
                     => evicted'.entries[j].key \in Range(evicted'.deleted) ]_vars

\* An entry read at some time outlived an eviction that deleted an entry last
\* written or read before that time.
C34_Witness ==
    /\ probe # None
    /\ evicted.put
    /\ \E e \in cache : e.key = probe[1].key /\ e.accessedAt = probe[1].at
    /\ \E i \in DOMAIN evicted.entries :
         /\ evicted.entries[i].key \in Range(evicted.deleted)
         /\ evicted.entries[i].accessedAt < probe[1].at

-----------------------------------------------------------------------------
(* Claims about the end of the pre-cache drain (SpecPreFair) *)

\* The drain is over: nothing queued, no activation at an await, no timer
\* pending, the flag lowered; every entry of the list last queued was taken
\* off the queue once, in order.
DrainOver ==
    /\ pre.queue = << >> /\ pre.runs = << >> /\ pre.timers = 0
    /\ ~pre.isPreCaching
    /\ pre.taken = pre.list

Held == IF tts.currentAudio = None THEN {} ELSE { tts.currentAudio[1] }

\* C33: at most one audio clip is playing at any time, and it is the one held
\* in currentAudio.
C33_OnlyCurrentAudioPlays ==
    tts.playing \subseteq Held

\* C32: wherever the page may stop during handleGrade, what is persisted is
\* consistent: the persisted card stats hold as many review updates as the
\* persisted session counts answers, so that no answer is folded into a
\* card's stats twice after a reload.
C32_StatsAndSessionPersistedTogether ==
    (probe # None /\ probe.savedSession # None) =>
        reviewsIn(probe.savedReviews) = probe.savedSession[1].questionsAnswered

====
